---- MODULE Spec2Model ----
(***************************************************************************)
(* Model of the GChat repository: the Genesys Web Chat v2 protocol client  *)
(* in its two implementations (genesys_chat/client.py, "lib", and the      *)
(* testing bot's client in genesys_bot.py, "bot"), the HTTP transport      *)
(* they sit on, and the conversation sources that feed the driver.         *)
(*                                                                         *)
(* Three specifications share the module:                                  *)
(*   SpecTransport  one _make_request call against a scripted gateway      *)
(*   Spec           one client instance and the operations called on it    *)
(*   SpecSrc        one drain of ExternalServiceConversationSource         *)
(***************************************************************************)
EXTENDS Integers, Sequences, FiniteSets, TLC

(***************************************************************************)
(* Bounds of the model.                                                    *)
(***************************************************************************)
MaxPos == 2
MaxRetries == 1
MaxEvents == 1
MaxRequests == 3
MaxTimeout == 2
MaxTurns == 5
MaxPrompts == 2
MaxDrains == 2
MaxLines == 2
MaxYield == 6
MaxDecode == 3
MaxOtherRequests == 2
MaxCalls == 2
MaxHistory == 4
MaxPayloads == 2
MaxRound == 2
MaxWaitEvents == 2
MaxMainRequests == 4
MaxRunRequests == 4
MaxRunTurns == 2

(***************************************************************************)
(* Python / JSON values.                                                   *)
(***************************************************************************)
\* Python None in a string-typed slot
None == "None"
\* a key missing from a JSON object, string-typed slot
AbsentS == "<absent>"
\* Python None (JSON null) in an integer-typed slot
NoPos == -1
\* a key missing from a JSON object, integer-typed slot
Absent == -2
\* the empty string
Empty == ""

\* dict.get(key, default) on an integer-typed key
DictGet(v, default) == IF v = Absent THEN default ELSE v

\* dict.get(key) on a string-typed key: None when the key is missing
DictGetS(v) == IF v = AbsentS THEN None ELSE v

(***************************************************************************)
(* The gateway: what one HTTP attempt can come back with.                  *)
(***************************************************************************)
\* status codes the gateway is sampled at
Statuses == {200, 403, 404, 429, 503}

\* one error entry of the envelope
ApiError == [code |-> 2, message |-> "err", advice |-> None]

\* the identity fields of the sessions the gateway can create
Credentials ==
  { [chatId |-> "C1", secureKey |-> "K1", userId |-> "U1", alias |-> "A1"],
    [chatId |-> "C2", secureKey |-> "K2", userId |-> "U2", alias |-> "A2"] }

NoCredentials ==
  [chatId |-> AbsentS, secureKey |-> AbsentS, userId |-> AbsentS, alias |-> AbsentS]

\* wire values of an event's "type"; "Bogus" is not an EventType member
WireEventTypes == {"Message", "Bogus"}

\* the sequences over S of length n, and of length at most n
SeqsOfLen(S, n) == [1..n -> S]

SeqsUpTo(S, n) == UNION { SeqsOfLen(S, k) : k \in 0..n }

\* the messages[] arrays the gateway is sampled at
WireMessages ==
  { [i \in DOMAIN ts |-> [type |-> ts[i], index |-> i, from |-> <<>>]] :
      ts \in SeqsUpTo(WireEventTypes, MaxEvents) }

\* the JSON envelope of a decodable response body
MkEnvelope(sc, errs, cr, np, msgs) ==
  [statusCode |-> sc, errors |-> errs,
   chatId |-> cr.chatId, secureKey |-> cr.secureKey,
   userId |-> cr.userId, alias |-> cr.alias,
   nextPosition |-> np, messages |-> msgs]

NoEnvelope == MkEnvelope(0, <<>>, NoCredentials, Absent, <<>>)

\* envelopes that differ only in statusCode / errors
PlainEnvelopes ==
  { MkEnvelope(sc, errs, NoCredentials, Absent, <<>>) :
      sc \in {0, 2}, errs \in {<<>>, <<ApiError>>} }

\* envelopes answering a session operation
OpEnvelopes ==
  { MkEnvelope(sc, errs, NoCredentials, np, msgs) :
      sc \in {0, 2}, errs \in {<<>>, <<ApiError>>},
      np \in {Absent, NoPos} \cup (0..MaxPos), msgs \in WireMessages }

\* envelopes answering a create request
CreateEnvelopes ==
  { MkEnvelope(sc, errs, cr, np, <<>>) :
      sc \in {0, 2}, errs \in {<<>>, <<ApiError>>},
      cr \in Credentials \cup {NoCredentials},
      np \in {Absent, NoPos} \cup (0..MaxPos) }

\* one HTTP attempt as the transport sees it
MkWire(net, status, body, env) ==
  [net |-> net, status |-> status, body |-> body, env |-> env]

\* attempts that end without an HTTP response
NetFailures ==
  { MkWire(n, 0, "empty", NoEnvelope) :
      n \in {"connect_error", "connect_timeout", "read_timeout"} }

\* attempts that end with an HTTP response whose body is not the envelope
NonJsonWires ==
  { MkWire("ok", s, b, NoEnvelope) : s \in Statuses \ {200}, b \in {"forbidden", "garbage"} }
  \cup { MkWire("ok", 200, b, NoEnvelope) : b \in {"forbidden", "garbage", "empty"} }

JsonWires(envs) == { MkWire("ok", 200, "json", e) : e \in envs }

\* what an attempt of the transport specification can come back with
TransportWires == NetFailures \cup NonJsonWires \cup JsonWires(PlainEnvelopes)

(***************************************************************************)
(* ResultParser: genesys_chat/models.py                                    *)
(***************************************************************************)
\* members of EventType
EventTypeValues ==
  {"ParticipantJoined", "ParticipantLeft", "Message", "TypingStarted",
   "TypingStopped", "NicknameUpdated", "PushUrl", "FileUploaded",
   "FileDeleted", "CustomNotice", "Notice", "IdleAlert", "IdleClose", "Unknown"}

\* the ValueError EventType(value) raises for a value that is no member
ValueError == "<ValueError>"

\* EventType(value): the member with that value
EventType(value) == IF value \in EventTypeValues THEN value ELSE ValueError

\* Participant.from_dict
Participant_from_dict(data) ==
  [nickname |-> DictGetS(data.nickname),
   participant_id |-> DictGet(data.participantId, NoPos),
   type |-> DictGetS(data.type)]

\* Participant.to_dict
Participant_to_dict(participant) ==
  [nickname |-> participant.nickname,
   participantId |-> participant.participant_id,
   type |-> participant.type]

\* An optional object is a sequence of at most one element: <<>> is None
\* (in a dict: the key is missing).
\* `if "from" in data: from_participant = Participant.from_dict(data["from"])`
From_participant(data) ==
  IF data.from = <<>> THEN <<>> ELSE <<Participant_from_dict(data.from[1])>>

\* a faulty Event.from_dict without the `except ValueError`
EventMutNoCatch(data) ==
  [type |-> EventType(IF data.type = AbsentS THEN "Unknown" ELSE data.type),
   index |-> data.index,
   from_participant |-> From_participant(data)]

\* Event.from_dict
Event_from_dict(data) ==
  LET event_type_str == IF data.type = AbsentS THEN "Unknown" ELSE data.type
      event_type == EventType(event_type_str)
  IN [type |-> IF event_type = ValueError THEN "Unknown" ELSE event_type,
      index |-> data.index,
      from_participant |-> From_participant(data)]

\* a faulty Event.to_dict that never writes "from"
EventToDictMutNoFrom(event) ==
  [type |-> event.type, index |-> event.index, from |-> <<>>]

\* Event.to_dict: "from" is written `if self.from_participant`, and a
\* Participant, a dataclass without __bool__ or __len__, is always true
Event_to_dict(event) ==
  [type |-> event.type, index |-> event.index,
   from |-> IF event.from_participant # <<>>
            THEN <<Participant_to_dict(event.from_participant[1])>>
            ELSE <<>>]

\* WebAPIErrorInfo.from_dict
WebAPIErrorInfo_from_dict(data) ==
  [code |-> DictGet(data.code, 0),
   message |-> IF data.message = AbsentS THEN Empty ELSE data.message,
   advice |-> DictGetS(data.advice)]

\* WebAPIErrorInfo.to_dict
WebAPIErrorInfo_to_dict(err) ==
  [code |-> err.code, message |-> err.message, advice |-> err.advice]

\* ChatOperationResult.from_dict
from_dict(data) ==
  [status_code |-> DictGet(data.statusCode, 0),
   chat_id |-> DictGetS(data.chatId),
   secure_key |-> DictGetS(data.secureKey),
   user_id |-> DictGetS(data.userId),
   alias |-> DictGetS(data.alias),
   next_position |-> DictGet(data.nextPosition, NoPos),
   messages |-> [i \in DOMAIN data.messages |-> Event_from_dict(data.messages[i])],
   errors |-> [i \in DOMAIN data.errors |-> WebAPIErrorInfo_from_dict(data.errors[i])]]

\* ChatOperationResult.to_dict
to_dict(result) ==
  [statusCode |-> result.status_code,
   chatId |-> result.chat_id,
   secureKey |-> result.secure_key,
   userId |-> result.user_id,
   alias |-> result.alias,
   nextPosition |-> result.next_position,
   messages |-> [i \in DOMAIN result.messages |-> Event_to_dict(result.messages[i])],
   errors |-> [i \in DOMAIN result.errors |-> WebAPIErrorInfo_to_dict(result.errors[i])]]

\* a faulty is_success that looks at the status code only
SuccessMutStatusOnly(result) == result.status_code = 0

\* ChatOperationResult.is_success
is_success(result) == result.status_code = 0 /\ Len(result.errors) = 0

\* the value standing for "no result object"
NoResult == from_dict(NoEnvelope)

\* no body decoded
NoParse ==
  [pc |-> "none", object |-> NoResult, data |-> NoEnvelope, result |-> NoResult,
   ok |-> FALSE]

(***************************************************************************)
(* Transport of the lib client: requests.Session with an HTTPAdapter whose *)
(* urllib3 Retry is Retry(total=max_retries, status_forcelist=...,         *)
(* allowed_methods=[POST, GET]).                                           *)
(***************************************************************************)
\* status_forcelist
RetryStatuses == {429, 500, 502, 503, 504}

\* what the caller of a call observes: a returned value, a raised exception
\* (its class, its message and the HTTP status the message names, 0 if none),
\* or the end of the process
MkOutcome(kind, exc, msg, code, ret) ==
  [kind |-> kind, exc |-> exc, msg |-> msg, code |-> code, ret |-> ret]

Pending == MkOutcome("pending", None, None, 0, None)
Idle == MkOutcome("idle", None, None, 0, None)
Raise(exc, msg) == MkOutcome("raise", exc, msg, 0, None)
RaiseStatus(exc, msg, code) == MkOutcome("raise", exc, msg, code, None)
Return(ret) == MkOutcome("return", None, None, 0, ret)
Exit == MkOutcome("exit", "SystemExit", None, 1, None)

\* Retry(total=..., status_forcelist=...): with total_left retries left, is
\* the attempt that came back with w sent again?  total counts every kind
\* of retry: connection errors and read errors (POST is an allowed method)
\* as well as responses whose status is in the forcelist.
Lib_should_retry(total_left, w) ==
  total_left > 0 /\ (w.net # "ok" \/ w.status \in RetryStatuses)

\* session.post through the adapter: attempts are made against the script
\* until one is not retried; yields the number of attempts and the last one
Lib_post(total, answers) ==
  LET retried(j) == Lib_should_retry(total - (j - 1), answers[j])
      n == CHOOSE i \in 1..Len(answers) :
             /\ \A j \in 1..(i - 1) : retried(j)
             /\ i = Len(answers) \/ ~retried(i)
  IN [attempts |-> n, wire |-> answers[n]]

\* the part of _make_request after session.post returned or raised:
\* the set of outcomes the installed requests version can produce
Lib_classify(w) ==
  IF w.net = "connect_timeout" THEN
    {[outcome |-> Raise("GenesysChatTimeoutError", "Request timed out"), result |-> NoResult]}
  ELSE IF w.net # "ok" THEN
    {[outcome |-> Raise("GenesysChatConnectionError", "Connection failed"), result |-> NoResult]}
  ELSE IF w.status >= 400 THEN
    {[outcome |-> RaiseStatus("GenesysChatConnectionError", "Request failed", w.status),
      result |-> NoResult]}
  ELSE IF w.body # "json" THEN
    {[outcome |-> Raise("GenesysChatConnectionError", "Request failed"), result |-> NoResult],
     [outcome |-> Raise("JSONDecodeError", "not JSON"), result |-> NoResult]}
  ELSE LET result == from_dict(w.env) IN
    IF ~is_success(result)
    THEN {[outcome |-> Raise("GenesysChatAPIError", "API returned errors"),
           result |-> [NoResult EXCEPT !.status_code = result.status_code,
                                       !.errors = result.errors]]}
    ELSE {[outcome |-> Return("result"), result |-> result]}

\* GenesysChatClient._make_request of the lib client
Lib_make_request(retries, answers) ==
  LET sent == Lib_post(retries, answers)
  IN { [attempts |-> sent.attempts, wire |-> sent.wire,
        outcome |-> c.outcome, result |-> c.result, log |-> None] :
         c \in Lib_classify(sent.wire) }

(***************************************************************************)
(* Transport of the bot client: one requests.request per call.             *)
(***************************************************************************)
\* the decoded JSON body as the bot passes it on (a dict, not a result object)
Bot_json(env) ==
  [status_code |-> DictGet(env.statusCode, 0),
   chat_id |-> env.chatId, secure_key |-> env.secureKey,
   user_id |-> env.userId, alias |-> env.alias,
   next_position |-> env.nextPosition,
   messages |-> env.messages,
   errors |-> env.errors]

\* the WAF check of _make_request
Bot_is_blocked(w) == w.status = 403 \/ w.body = "forbidden"

\* GenesysChatClient._make_request of the bot client
Bot_make_request(answers) ==
  LET w == answers[1]
      mk(o, r, l) == [attempts |-> 1, wire |-> w, outcome |-> o, result |-> r, log |-> l]
  IN IF w.net # "ok" THEN {mk(Exit, NoResult, "Request exception")}
     ELSE IF Bot_is_blocked(w) THEN {mk(Return("None"), NoResult, "WAF BLOCKED")}
     ELSE IF w.status < 400 /\ w.body # "empty" THEN
       IF w.body = "json"
       THEN {mk(Return("json"), Bot_json(w.env),
                IF DictGet(w.env.statusCode, 0) # 0 THEN "API Error" ELSE None)}
       ELSE {mk(Exit, NoResult, "Request exception"),
             mk(Return("None"), NoResult, "JSON decode error")}
     ELSE {mk(Return("None"), NoResult, "Request failed")}

(***************************************************************************)
(* What the gateway's answer was, in the terms of the error taxonomy: the  *)
(* kind of failure (or "ok") behind an outcome.                            *)
(***************************************************************************)
Cause(w) ==
  IF w.net = "connect_error" THEN "connection"
  ELSE IF w.net # "ok" THEN "timeout"
  ELSE IF w.status = 403 \/ w.body = "forbidden" THEN "blocked"
  ELSE IF w.status >= 400 THEN "status"
  ELSE IF w.body # "json" THEN "protocol"
  ELSE IF DictGet(w.env.statusCode, 0) # 0 \/ Len(w.env.errors) # 0 THEN "api_error"
  ELSE "ok"

(***************************************************************************)
(* The results _make_request can hand to an operation of the client.       *)
(***************************************************************************)
\* what an operation keeps of a _make_request call
Project(rs) ==
  { [outcome |-> r.outcome, result |-> r.result, log |-> r.log, cause |-> Cause(r.wire)] :
      r \in rs }

\* the answers to a request whose envelope, if any, is one of envs
FinalWires(envs) == NetFailures \cup NonJsonWires \cup JsonWires(envs)

\* the gateway's answers to the attempts of one request
ClientScripts(n, envs) ==
  { Append(p, w) : p \in SeqsOfLen(TransportWires, n), w \in FinalWires(envs) }

\* lib: results of the request of a session operation, paired with the
\* max_retries they arise under
LibOpResults ==
  { x : x \in UNION { { <<n, r>> : r \in UNION { Project(Lib_make_request(n, s)) :
                                                   s \in ClientScripts(n, OpEnvelopes) } } :
                      n \in 0..MaxRetries } }

\* lib: results of the create request, paired with max_retries
LibCreateResults ==
  { x : x \in UNION { { <<n, r>> : r \in UNION { Project(Lib_make_request(n, s)) :
                                                   s \in ClientScripts(n, CreateEnvelopes) } } :
                      n \in 0..MaxRetries } }

\* lib: the last attempt of download_file's own post, paired with max_retries
LibDownloadWires ==
  { x : x \in UNION { { <<n, Lib_post(n, s).wire>> :
                          s \in ClientScripts(n, PlainEnvelopes) } :
                      n \in 0..MaxRetries } }

\* bot: results of the request of a session operation
BotOpResults ==
  { x : x \in UNION { Project(Bot_make_request(<<w>>)) : w \in FinalWires(OpEnvelopes) } }

\* bot: results of the create request
BotCreateResults ==
  { x : x \in UNION { Project(Bot_make_request(<<w>>)) : w \in FinalWires(CreateEnvelopes) } }

\* bot: the answers to disconnect's own request
BotDisconnectWires == { w : w \in FinalWires(PlainEnvelopes) }

(***************************************************************************)
(* State.                                                                  *)
(***************************************************************************)
VARIABLES
  \* which GenesysChatClient class the instance is: "lib" or "bot"
  impl,
  \* ChatConfig.max_retries
  max_retries,
  \* the session fields (lib: _chat_id ...; bot: the fields of self.session)
  chat_id, secure_key, user_id, alias, transcript_position,
  \* bot: self.request_count
  request_count,
  \* FALSE once sys.exit has ended the process
  alive,
  \* the call made last: what it sent and what its caller observed
  last,
  \* the position of a running wait_for_message call
  wait,
  \* transport specification: the gateway's answers to successive attempts
  script,
  \* transport specification: what _make_request came back with
  http,
  \* the ExternalServiceConversationSource object and its chat service
  source,
  \* the generator get_messages() returned and what its consumer has seen
  gen,
  \* decoder specification: a response body and what from_dict made of it
  parse,
  \* bot: self.config['data'], the form start_chat copies
  config_data,
  \* two-client specification: the fields of a second instance of the class
  other,
  \* two-caller specification: where each caller's send_message stands
  callers,
  \* chat service specification: an ExternalChatService object
  service,
  \* payload test specification: where run_payload_test stands
  test,
  \* the driver: where main / run_from_source is and the client calls it has made
  driver

session == <<chat_id, secure_key, user_id, alias, transcript_position>>

cvars == <<chat_id, secure_key, user_id, alias, transcript_position,
           request_count, alive, last, wait, config_data, other, callers, service,
           test, driver>>

tvars == <<script, http>>

svars == <<source, gen>>

vars == <<impl, max_retries, chat_id, secure_key, user_id, alias,
          transcript_position, request_count, alive, last, wait, script, http,
          source, gen, parse, config_data, other, callers, service, test, driver>>

\* truth value of a Python string-or-None
Truthy(x) == x # None /\ x # Empty

\* Python `x or ""`
OrEmpty(x) == IF Truthy(x) THEN x ELSE Empty

\* is_active of the lib; `self.session is not None` of the bot
is_active == chat_id # None

(***************************************************************************)
(* Requests.                                                               *)
(***************************************************************************)
\* the URL and the form of a request
MkRequest(chat, op, form, a, k, u, pos) ==
  [chat |-> chat, op |-> op, form |-> form,
   alias |-> a, secureKey |-> k, userId |-> u, transcriptPosition |-> pos]

NoRequest == MkRequest(None, None, None, None, None, None, NoPos)

\* the form of a request: which fields it is made of, and the common fields
Data(req) ==
  [form |-> req.form, alias |-> req.alias, secureKey |-> req.secureKey,
   userId |-> req.userId, transcriptPosition |-> req.transcriptPosition]

\* the identity fields (nickname, firstName, lastName, emailAddress, subject,
\* userData[...]) and the text: the form of a create request
IdentityData ==
  [form |-> "identity", alias |-> None, secureKey |-> None, userId |-> None,
   transcriptPosition |-> NoPos]

\* the fields __init__ gives an instance: no session, cursor 0 (lib) or no
\* ChatSession (bot), no request made, the identity form
NewClient(pos) ==
  [chat_id |-> None, secure_key |-> None, user_id |-> None, alias |-> None,
   transcript_position |-> pos, request_count |-> 0, config_data |-> IdentityData]

\* no second instance
NoOther == NewClient(0)

\* no payload test running
NoTest ==
  [pc |-> "idle", payload_type |-> None, stop_on_block |-> FALSE,
   categories |-> <<>>, category |-> 0, index |-> 0, sent |-> <<>>]

\* a Python bool as a returned value
PyBool(b) == IF b THEN "True" ELSE "False"

\* an ExternalChatService as __init__ leaves it: api_key tells whether the
\* configuration holds a key
NewService(key) ==
  [api_key |-> key, conversation_history |-> <<>>, session_active |-> FALSE,
   op |-> "init", ret |-> None,
   response |-> [success |-> FALSE, message |-> None, error |-> None]]

\* no chat service constructed
NoService == NewService(FALSE)

\* the threads that call into one client
Callers == {"t1", "t2"}

\* a caller outside send_message, having made no call
NoCaller == [pc |-> "idle", sent |-> NoPos, calls |-> 0]

NoCallers == [t \in Callers |-> NoCaller]

\* _get_chat_url(endpoint): the chat id in the URL, None when the URL is
\* config.get_full_url(endpoint)
Lib_chat_url(cid) == IF Truthy(cid) THEN cid ELSE None

\* a faulty form that always carries the tracked cursor
LibRequestMutTracked(endpoint, form, pos) ==
  MkRequest(Lib_chat_url(chat_id), endpoint, form,
            OrEmpty(alias), OrEmpty(secure_key), OrEmpty(user_id),
            transcript_position)

\* _get_chat_url and _prepare_common_data of the lib: the request an
\* operation posts to `endpoint`, its cursor field being pos
Lib_request(endpoint, form, pos) ==
  MkRequest(Lib_chat_url(chat_id), endpoint, form,
            OrEmpty(alias), OrEmpty(secure_key), OrEmpty(user_id), pos)

\* start_chat of the lib: the identity fields in `data`, posted to
\* _get_chat_url("")
Lib_create_request ==
  MkRequest(Lib_chat_url(chat_id), Empty, "identity", None, None, None, NoPos)

\* start_chat of the bot: a copy of self.config['data'], posted to server_url
Bot_create_request ==
  MkRequest(None, Empty, config_data.form, config_data.alias, config_data.secureKey,
            config_data.userId, config_data.transcriptPosition)

\* the URL f"{base_url}{chat_id}/{op}" and the data dict of the bot
Bot_request(endpoint, pos) ==
  MkRequest(chat_id, endpoint, "session", alias, secure_key, user_id, pos)

NoWait == [pc |-> "idle", timeout |-> 0, event_type |-> None, elapsed |-> 0]

MkLast(op, arg, had, req, r) ==
  [op |-> op, arg |-> arg, had_session |-> had, sent |-> req # NoRequest, req |-> req,
   outcome |-> r.outcome, result |-> r.result, cause |-> r.cause, log |-> r.log,
   seen |-> <<>>]

NoCall == [outcome |-> Idle, result |-> NoResult, cause |-> "none", log |-> None]

\* `raise GenesysChatAPIError("No active chat session")`
NoSession ==
  [outcome |-> Raise("GenesysChatAPIError", "No active chat session"),
   result |-> NoResult, cause |-> "none", log |-> None]

\* no driver running
NoDriver ==
  [pc |-> "none", mode |-> None, file |-> FALSE, raised |-> None, trace |-> <<>>]

\* no conversation source constructed, no generator created
NoSource ==
  [kind |-> "none",
   initial_prompts |-> <<>>, max_turns |-> 0, context_mode |-> TRUE,
   current_turn |-> 0, prompt_index |-> 0, generated_messages |-> <<>>,
   history |-> 0,
   messages |-> <<>>, current_index |-> 0, get_responses |-> FALSE]

NoGen ==
  [pc |-> "none", yielded |-> <<>>, calls |-> 0, drains |-> 0,
   asked |-> <<>>, prompts |-> 0, before |-> <<>>, rewound |-> FALSE, reset |-> FALSE,
   had |-> 0]

(***************************************************************************)
(* Spec: one client instance.                                              *)
(***************************************************************************)
Init ==
  /\ impl \in {"lib", "bot"}
  /\ max_retries \in (IF impl = "lib" THEN 0..MaxRetries ELSE {0})
  /\ chat_id = None /\ secure_key = None /\ user_id = None /\ alias = None
  /\ transcript_position = (IF impl = "lib" THEN 0 ELSE NoPos)
  /\ request_count = 0
  /\ alive = TRUE
  /\ last = MkLast("init", NoPos, FALSE, NoRequest, NoCall)
  /\ wait = NoWait
  /\ script = <<>>
  /\ http = [attempts |-> 0, wire |-> MkWire("ok", 0, "empty", NoEnvelope),
             outcome |-> Idle, result |-> NoResult, log |-> None]
  /\ source = NoSource
  /\ gen = NoGen
  /\ parse = NoParse
  /\ config_data = IdentityData
  /\ other = NoOther
  /\ callers = NoCallers
  /\ service = NoService
  /\ test = NoTest
  /\ driver = NoDriver

LibReady == impl = "lib" /\ alive /\ wait.pc = "idle"

BotReady == impl = "bot" /\ alive /\ request_count < MaxRequests

Frame ==
  UNCHANGED <<impl, max_retries, script, http, source, gen, parse, config_data, other,
              callers, service, test, driver>>

\* what the bot's operations leave alone
BotFrame ==
  UNCHANGED <<impl, max_retries, script, http, source, gen, parse, other, callers,
              service, test, driver>>

----------------------------------------------------------------------------
(* genesys_chat/client.py *)

\* a faulty session check that lets every call through
NoSessionMutNever(cid) == FALSE

\* the `if not self._chat_id: raise ...` every operation but start_chat opens with
Lib_no_session(cid) == ~Truthy(cid)

\* two faulty cursor updates the properties must tell from the real one:
\* a missing nextPosition read as 0, and the response ignored
UpdateMutOrZero(pos, result) ==
  IF result.next_position = NoPos THEN 0 ELSE result.next_position
UpdateMutKeep(pos, result) == pos

\* the cursor update `if result.next_position is not None: ...`
Lib_update_position(pos, result) ==
  IF result.next_position # NoPos THEN result.next_position ELSE pos

\* start_chat's `result.next_position or 0`
Lib_start_position(result) ==
  IF result.next_position = NoPos THEN 0 ELSE result.next_position

\* the operations that check the session, post pos as cursor to `endpoint`
\* and, if `updates`, store the response's nextPosition
Lib_operation(op, arg, endpoint, cursor, pos, updates) ==
  /\ LibReady
  /\ IF Lib_no_session(chat_id)
     THEN /\ last' = MkLast(op, arg, is_active, NoRequest, NoSession)
          /\ UNCHANGED <<session, request_count, alive, wait>>
     ELSE \E nr \in LibOpResults :
          LET r == nr[2] IN
          /\ nr[1] = max_retries
          /\ last' = MkLast(op, arg, is_active, Lib_request(endpoint, "session", pos), r)
          /\ transcript_position' =
               IF r.outcome.kind = "return" /\ updates
               THEN Lib_update_position(cursor, r.result) ELSE cursor
          /\ UNCHANGED <<chat_id, secure_key, user_id, alias, request_count, alive, wait>>
  /\ Frame

start_chat ==
  /\ LibReady
  /\ \E nr \in LibCreateResults :
       LET r == nr[2] IN
       /\ nr[1] = max_retries
       /\ last' = MkLast("start_chat", NoPos, is_active, Lib_create_request, r)
       /\ IF r.outcome.kind = "return"
          THEN /\ chat_id' = r.result.chat_id
               /\ secure_key' = r.result.secure_key
               /\ user_id' = r.result.user_id
               /\ alias' = r.result.alias
               /\ transcript_position' = Lib_start_position(r.result)
          ELSE UNCHANGED session
  /\ UNCHANGED <<request_count, alive, wait>>
  /\ Frame

refresh(position) ==
  LET cursor == IF position # NoPos THEN position ELSE transcript_position
  IN Lib_operation("refresh", position, "refresh", cursor, cursor, TRUE)

disconnect ==
  /\ LibReady
  /\ IF Lib_no_session(chat_id)
     THEN /\ last' = MkLast("disconnect", NoPos, is_active, NoRequest, NoSession)
          /\ UNCHANGED session
     ELSE \E nr \in LibOpResults :
          LET r == nr[2] IN
          /\ nr[1] = max_retries
          /\ last' = MkLast("disconnect", NoPos, is_active,
                            Lib_request("disconnect", "session", transcript_position), r)
          /\ IF r.outcome.kind = "return"
             THEN /\ chat_id' = None /\ secure_key' = None
                  /\ user_id' = None /\ alias' = None
                  /\ transcript_position' = 0
             ELSE UNCHANGED session
  /\ UNCHANGED <<request_count, alive, wait>>
  /\ Frame

send_message ==
  Lib_operation("send_message", NoPos, "send",
                transcript_position, transcript_position, TRUE)

send_custom_notice ==
  Lib_operation("send_custom_notice", NoPos, "customNotice",
                transcript_position, transcript_position, TRUE)

start_typing ==
  Lib_operation("start_typing", NoPos, "startTyping",
                transcript_position, transcript_position, FALSE)

stop_typing ==
  Lib_operation("stop_typing", NoPos, "stopTyping",
                transcript_position, transcript_position, FALSE)

\* upload_file; exists: whether the path names a file
upload_file(exists) ==
  IF is_active /\ ~Lib_no_session(chat_id) /\ ~exists
  THEN /\ LibReady
       /\ last' = MkLast("upload_file", NoPos, is_active, NoRequest,
                         [outcome |-> Raise("FileNotFoundError", "File not found"),
                          result |-> NoResult, cause |-> "none", log |-> None])
       /\ UNCHANGED <<session, request_count, alive, wait>>
       /\ Frame
  ELSE Lib_operation("upload_file", NoPos, "file",
                     transcript_position, transcript_position, TRUE)

check_file_limits ==
  Lib_operation("check_file_limits", NoPos, "file/limits",
                transcript_position, transcript_position, FALSE)

delete_file ==
  Lib_operation("delete_file", NoPos, "file/{id}/delete",
                transcript_position, transcript_position, FALSE)

\* download_file posts by itself: any response below 400 is written to disk,
\* every requests exception becomes GenesysChatConnectionError
download_file ==
  /\ LibReady
  /\ IF Lib_no_session(chat_id)
     THEN last' = MkLast("download_file", NoPos, is_active, NoRequest, NoSession)
     ELSE \E nw \in LibDownloadWires :
          LET w == nw[2]
          IN /\ nw[1] = max_retries
             /\ last' = MkLast("download_file", NoPos, is_active,
                  Lib_request("file/{id}/download", "session", transcript_position),
                  [outcome |-> IF w.net = "ok" /\ w.status < 400
                               THEN Return("path")
                               ELSE Raise("GenesysChatConnectionError",
                                          "File download failed"),
                   result |-> NoResult, cause |-> Cause(w), log |-> None])
  /\ UNCHANGED <<session, request_count, alive, wait>>
  /\ Frame

update_nickname ==
  Lib_operation("update_nickname", NoPos, "updateNickname",
                transcript_position, transcript_position, FALSE)

update_user_data ==
  Lib_operation("update_user_data", NoPos, "updateData",
                transcript_position, transcript_position, FALSE)

set_push_url ==
  Lib_operation("set_push_url", NoPos, "pushUrl",
                transcript_position, transcript_position, FALSE)

\* a faulty read receipt that keeps the position it reported as the cursor
ReadReceiptMutTracks(p) ==
  Lib_operation("send_read_receipt", p, "readReceipt", p, p, FALSE)

\* send_read_receipt(p) posts p in place of the cursor
send_read_receipt(p) ==
  Lib_operation("send_read_receipt", p, "readReceipt", transcript_position, p, FALSE)

\* a faulty filter that lets every event through
FilterMutAll(messages, event_type) == messages

\* a faulty filter that lists the matches last-first
FilterMutLast(messages, event_type) ==
  LET matches(msg) == msg.type = event_type
      found == SelectSeq(messages, matches)
  IN [i \in 1..Len(found) |-> found[Len(found) + 1 - i]]

\* the events of `messages` whose type is event_type, in order
FilterType(messages, event_type) ==
  LET matches(msg) == msg.type = event_type
  IN SelectSeq(messages, matches)

\* the event types a caller asks for
AskedTypes == {"Message", "Unknown"}

\* get_messages(event_type): a refresh, then the filter
get_messages(event_type) ==
  /\ LibReady
  /\ IF Lib_no_session(chat_id)
     THEN /\ last' = MkLast("get_messages", NoPos, is_active, NoRequest, NoSession)
          /\ UNCHANGED session
     ELSE \E nr \in LibOpResults :
          LET r == nr[2] IN
          /\ nr[1] = max_retries
          /\ last' = MkLast("get_messages", NoPos, is_active,
                            Lib_request("refresh", "session", transcript_position),
                            IF r.outcome.kind = "return"
                            THEN [r EXCEPT !.outcome = Return("messages"),
                                           !.result.messages =
                                              IF event_type = None THEN @
                                              ELSE FilterType(@, event_type)]
                            ELSE r)
          /\ transcript_position' =
               IF r.outcome.kind = "return"
               THEN Lib_update_position(transcript_position, r.result)
               ELSE transcript_position
          /\ UNCHANGED <<chat_id, secure_key, user_id, alias>>
  /\ UNCHANGED <<request_count, alive, wait>>
  /\ Frame

\* wait_for_message is entered: start_time = time.time()
wait_for_message(timeout, event_type) ==
  /\ LibReady
  /\ wait' = [pc |-> "loop", timeout |-> timeout, event_type |-> event_type, elapsed |-> 0]
  /\ last' = MkLast("wait_for_message", timeout, is_active, NoRequest,
                    [NoCall EXCEPT !.outcome = Pending])
  /\ UNCHANGED <<session, request_count, alive>>
  /\ Frame

\* one turn of wait_for_message's loop: the test of the clock, get_messages,
\* and either the return of the first match or the sleep
\* `answers` is what the gateway can answer the refresh with; last.seen is
\* result.messages of get_messages before the filter
Wait_poll(answers) ==
  /\ impl = "lib" /\ alive /\ wait.pc = "loop"
  /\ IF ~(wait.elapsed < wait.timeout)
     THEN /\ last' = [last EXCEPT !.outcome =
                        Raise("GenesysChatTimeoutError", "Timeout waiting for message")]
          /\ wait' = NoWait
          /\ UNCHANGED session
     ELSE IF Lib_no_session(chat_id)
     THEN /\ last' = MkLast("wait_for_message", wait.timeout, is_active, NoRequest, NoSession)
          /\ wait' = NoWait
          /\ UNCHANGED session
     ELSE \E nr \in answers, dt \in 1..MaxTimeout :
          LET r == nr[2]
              req == Lib_request("refresh", "session", transcript_position)
              found == FilterType(r.result.messages, wait.event_type)
          IN /\ nr[1] = max_retries
             /\ transcript_position' =
                  IF r.outcome.kind = "return"
                  THEN Lib_update_position(transcript_position, r.result)
                  ELSE transcript_position
             /\ UNCHANGED <<chat_id, secure_key, user_id, alias>>
             /\ IF r.outcome.kind # "return"
                THEN /\ last' = MkLast("wait_for_message", wait.timeout, is_active, req, r)
                     /\ wait' = NoWait
                ELSE IF found # <<>>
                THEN /\ last' = [MkLast("wait_for_message", wait.timeout, is_active, req,
                                        [r EXCEPT !.outcome = Return("event"),
                                                  !.result.messages = <<Head(found)>>])
                                 EXCEPT !.seen = r.result.messages]
                     /\ wait' = NoWait
                ELSE /\ last' = [MkLast("wait_for_message", wait.timeout, is_active, req,
                                        [r EXCEPT !.outcome = Pending])
                                 EXCEPT !.seen = r.result.messages]
                     /\ wait' = [wait EXCEPT !.elapsed =
                                   IF @ + dt > MaxTimeout THEN MaxTimeout ELSE @ + dt]
  /\ UNCHANGED <<request_count, alive>>
  /\ Frame

wait_for_message_poll == Wait_poll(LibOpResults)

----------------------------------------------------------------------------
(* genesys_bot.py *)

BotFailed(log) ==
  [outcome |-> Return("False"), result |-> NoResult, cause |-> "none", log |-> log]

\* response.get('nextPosition', default)
Bot_next_position(response, default) == DictGet(response.next_position, default)

bot_start_chat ==
  /\ BotReady
  /\ request_count' = request_count + 1
  /\ \E r \in BotCreateResults :
       LET req == Bot_create_request
       IN IF r.outcome.kind = "exit"
          THEN /\ alive' = FALSE
               /\ last' = MkLast("start_chat", NoPos, is_active, req, r)
               /\ UNCHANGED session
          ELSE IF r.outcome.ret = "None"
          THEN /\ last' = MkLast("start_chat", NoPos, is_active, req,
                                 [r EXCEPT !.outcome = Return("False")])
               /\ UNCHANGED <<session, alive>>
          ELSE IF r.result.chat_id = AbsentS
          THEN /\ last' = MkLast("start_chat", NoPos, is_active, req,
                                 [r EXCEPT !.outcome = Raise("KeyError", "chatId")])
               /\ UNCHANGED <<session, alive>>
          ELSE /\ last' = MkLast("start_chat", NoPos, is_active, req,
                                 [r EXCEPT !.outcome = Return("True")])
               /\ chat_id' = r.result.chat_id
               /\ secure_key' = r.result.secure_key
               /\ user_id' = r.result.user_id
               /\ alias' = r.result.alias
               /\ transcript_position' = Bot_next_position(r.result, 0)
               /\ UNCHANGED alive
  /\ config_data' = Data(Bot_create_request)
  /\ UNCHANGED wait
  /\ BotFrame

\* refresh and send_message of the bot: ret is what a success returns; the
\* model follows a client up to its `limit`-th request, the gateway answering
\* with one of `answers`
Bot_call_answered(answers, limit, op, endpoint, failure, ret) ==
  /\ impl = "bot" /\ alive
  /\ IF ~is_active
     THEN /\ last' = MkLast(op, NoPos, is_active, NoRequest,
                            [BotFailed("No active chat session") EXCEPT
                               !.outcome = Return(failure)])
          /\ UNCHANGED <<session, request_count, alive, config_data>>
     ELSE /\ request_count < limit
          /\ request_count' = request_count + 1
          /\ config_data' = Data(Bot_request(endpoint, transcript_position))
          /\ \E r \in answers :
               LET req == Bot_request(endpoint, transcript_position)
               IN IF r.outcome.kind = "exit"
                  THEN /\ alive' = FALSE
                       /\ last' = MkLast(op, NoPos, is_active, req, r)
                       /\ UNCHANGED session
                  ELSE IF r.outcome.ret = "None"
                  THEN /\ last' = MkLast(op, NoPos, is_active, req,
                                         [r EXCEPT !.outcome = Return(failure)])
                       /\ UNCHANGED <<session, alive>>
                  ELSE /\ last' = MkLast(op, NoPos, is_active, req,
                                         [r EXCEPT !.outcome = Return(ret)])
                       /\ transcript_position' =
                            Bot_next_position(r.result, transcript_position)
                       /\ UNCHANGED <<chat_id, secure_key, user_id, alias, alive>>
  /\ UNCHANGED wait

Bot_call_within(limit, op, endpoint, failure, ret) ==
  Bot_call_answered(BotOpResults, limit, op, endpoint, failure, ret)

Bot_call(op, endpoint, failure, ret) ==
  Bot_call_within(MaxRequests, op, endpoint, failure, ret)

\* the same as an action of the client alone
Bot_operation(op, endpoint, failure, ret) ==
  /\ Bot_call(op, endpoint, failure, ret)
  /\ BotFrame

bot_refresh == Bot_operation("refresh", "refresh", "None", "messages")

bot_send_message == Bot_operation("send_message", "send", "False", "True")

\* disconnect of the bot posts by itself: the session is dropped whatever
\* the response is, and kept when requests.request raises
Bot_disconnect_call ==
  /\ impl = "bot"
  /\ IF ~is_active
     THEN /\ last' = MkLast("disconnect", NoPos, is_active, NoRequest,
                            BotFailed("No active chat session to disconnect"))
          /\ UNCHANGED <<session, config_data>>
     ELSE \E w \in BotDisconnectWires :
          LET req == Bot_request("disconnect", transcript_position)
          IN /\ config_data' = Data(req)
             /\ IF w.net # "ok"
                THEN /\ last' = MkLast("disconnect", NoPos, is_active, req,
                                       [outcome |-> Return("False"), result |-> NoResult,
                                        cause |-> Cause(w), log |-> "Disconnect error"])
                     /\ UNCHANGED session
                ELSE /\ last' = MkLast("disconnect", NoPos, is_active, req,
                                       [outcome |-> Return("True"), result |-> NoResult,
                                        cause |-> Cause(w), log |-> "Disconnected from chat"])
                     /\ chat_id' = None /\ secure_key' = None
                     /\ user_id' = None /\ alias' = None
                     /\ transcript_position' = NoPos
  /\ UNCHANGED <<request_count, alive, wait>>

bot_disconnect == alive /\ Bot_disconnect_call /\ BotFrame

----------------------------------------------------------------------------
Next ==
  \/ start_chat
  \/ \E position \in {NoPos} \cup (0..MaxPos) : refresh(position)
  \/ disconnect
  \/ send_message
  \/ send_custom_notice
  \/ start_typing
  \/ stop_typing
  \/ \E exists \in BOOLEAN : upload_file(exists)
  \/ check_file_limits
  \/ delete_file
  \/ download_file
  \/ update_nickname
  \/ update_user_data
  \/ set_push_url
  \/ \E p \in 0..MaxPos : send_read_receipt(p)
  \/ \E event_type \in AskedTypes \cup {None} : get_messages(event_type)
  \/ \E timeout \in 0..MaxTimeout, event_type \in AskedTypes :
       wait_for_message(timeout, event_type)
  \/ wait_for_message_poll
  \/ bot_start_chat
  \/ bot_refresh
  \/ bot_send_message
  \/ bot_disconnect

Spec == Init /\ [][Next]_vars

(***************************************************************************)
(* SpecSvc: chat_services.py and external_chat_service.py.  One            *)
(* ExternalChatService and the calls its users make on it.                 *)
(***************************************************************************)
\* ChatMessage(role, content)
ChatMessage(role, content) == [role |-> role, content |-> content]

\* the texts users send, the prompts configured, the replies the API gives
UserTexts == {"u1", "u2"}

AssistantTexts == {"a1", "a2"}

Roles == {"user", "assistant", "system"}

\* what requests.post to the chat completions API comes back with: a 200
\* with a reply, a 200 whose choices[0].message.content is null, a 200 whose
\* body lacks choices[0].message.content, another status, a timeout, another
\* requests exception
Completions ==
  { [kind |-> "reply", content |-> c] : c \in AssistantTexts }
  \cup { [kind |-> k, content |-> None] :
           k \in {"null_content", "malformed", "status", "timeout", "exception"} }

\* ChatResponse(success, message, error)
ChatResponse(success, message, error) ==
  [success |-> success, message |-> message, error |-> error]

\* a faulty add_to_history that puts the new message first
AddMutPrepend(entries, role, content) == <<ChatMessage(role, content)>> \o entries

\* BaseChatService.add_to_history
add_to_history(entries, role, content) == Append(entries, ChatMessage(role, content))

\* BaseChatService.clear_history
clear_history(entries) == <<>>

\* ExternalChatService.send_message(message) answered by completion: the
\* history after it and the ChatResponse.  A null content is added to the
\* history before `assistant_message[:60]` raises TypeError, which the last
\* except clause turns into a failure.
Svc_send_message(svc, message, completion) ==
  IF ~svc.api_key
  THEN [history |-> svc.conversation_history, success |-> FALSE,
        response |-> ChatResponse(FALSE, None, "API key not configured")]
  ELSE LET asked == add_to_history(svc.conversation_history, "user", message)
       IN CASE completion.kind = "reply" ->
                 [history |-> add_to_history(asked, "assistant", completion.content),
                  success |-> TRUE,
                  response |-> ChatResponse(TRUE, completion.content, None)]
            [] completion.kind = "null_content" ->
                 [history |-> add_to_history(asked, "assistant", None),
                  success |-> FALSE,
                  response |-> ChatResponse(FALSE, None, "Unexpected error")]
            [] completion.kind = "malformed" ->
                 [history |-> asked, success |-> FALSE,
                  response |-> ChatResponse(FALSE, None, "Unexpected error")]
            [] completion.kind = "status" ->
                 [history |-> asked, success |-> FALSE,
                  response |-> ChatResponse(FALSE, None, "API request failed")]
            [] completion.kind = "timeout" ->
                 [history |-> asked, success |-> FALSE,
                  response |-> ChatResponse(FALSE, None, "Request timeout")]
            [] OTHER ->
                 [history |-> asked, success |-> FALSE,
                  response |-> ChatResponse(FALSE, None, "Request exception")]

InitSvc ==
  /\ service \in { NewService(key) : key \in BOOLEAN }
  /\ impl = "lib" /\ max_retries = 0
  /\ chat_id = None /\ secure_key = None /\ user_id = None /\ alias = None
  /\ transcript_position = 0
  /\ request_count = 0
  /\ alive = TRUE
  /\ last = MkLast("init", NoPos, FALSE, NoRequest, NoCall)
  /\ wait = NoWait
  /\ script = <<>>
  /\ http = [attempts |-> 0, wire |-> MkWire("ok", 0, "empty", NoEnvelope),
             outcome |-> Idle, result |-> NoResult, log |-> None]
  /\ source = NoSource
  /\ gen = NoGen
  /\ parse = NoParse
  /\ config_data = IdentityData
  /\ other = NoOther
  /\ callers = NoCallers
  /\ test = NoTest
  /\ driver = NoDriver

SvcFrame ==
  UNCHANGED <<impl, max_retries, chat_id, secure_key, user_id, alias,
              transcript_position, request_count, alive, last, wait, config_data,
              other, callers, tvars, svars, parse, test, driver>>

\* room in the history for the messages one call can add
SvcRoom(n) == Len(service.conversation_history) + n <= MaxHistory

svc_add_to_history ==
  /\ SvcRoom(1)
  /\ \E role \in Roles, content \in UserTexts :
       service' = [service EXCEPT
                     !.conversation_history = add_to_history(@, role, content),
                     !.op = "add_to_history", !.ret = None]
  /\ SvcFrame

svc_clear_history ==
  /\ service' = [service EXCEPT !.conversation_history = clear_history(@),
                                !.op = "clear_history", !.ret = None]
  /\ SvcFrame

svc_send_message ==
  /\ SvcRoom(2)
  /\ \E message \in UserTexts, completion \in Completions :
       LET sent == Svc_send_message(service, message, completion)
       IN service' = [service EXCEPT !.conversation_history = sent.history,
                                     !.op = "send_message", !.ret = PyBool(sent.success),
                                     !.response = sent.response]
  /\ SvcFrame

\* start_session(initial_message): the history is cleared, the system
\* prompt added and the initial message, if any, sent
svc_start_session ==
  /\ \E initial \in {None, Empty} \cup UserTexts, completion \in Completions :
       LET cleared == [service EXCEPT !.conversation_history =
                         add_to_history(clear_history(@), "system", "prompt")]
           sent == Svc_send_message(cleared, initial, completion)
       IN IF Truthy(initial)
          THEN service' = [cleared EXCEPT !.conversation_history = sent.history,
                                          !.session_active =
                                             IF sent.success THEN TRUE ELSE @,
                                          !.op = "start_session", !.ret = PyBool(sent.success),
                                          !.response = sent.response]
          ELSE service' = [cleared EXCEPT !.session_active = TRUE,
                                          !.op = "start_session", !.ret = "True"]
  /\ SvcFrame

svc_end_session ==
  /\ service' = [service EXCEPT !.session_active = FALSE,
                                !.op = "end_session", !.ret = PyBool(service.session_active)]
  /\ SvcFrame

NextSvc ==
  \/ svc_add_to_history
  \/ svc_clear_history
  \/ svc_send_message
  \/ svc_start_session
  \/ svc_end_session

SpecSvc == InitSvc /\ [][NextSvc]_vars

\* the service driven through its session interface only, as the
\* conversation sources and the bot drive it
NextSvcCalls ==
  \/ svc_start_session
  \/ svc_send_message
  \/ svc_clear_history
  \/ svc_end_session

SpecSvcCalls == InitSvc /\ [][NextSvcCalls]_vars

(***************************************************************************)
(* SpecPayload: ConversationBot.run_payload_test on a bot client.  One     *)
(* step is one payload handed to send_message.                             *)
(***************************************************************************)
\* the keys of PayloadGenerator.get_all_payloads(), in insertion order
CategoryNames == <<"xss", "sqli", "cmdi", "path_traversal", "xxe", "normal">>

RECURSIVE SumSizes(_)
SumSizes(sizes) == IF sizes = <<>> THEN 0 ELSE Head(sizes) + SumSizes(Tail(sizes))

\* the lengths of the payload lists of the first categories: every way of
\* cutting at most MaxPayloads payloads into non-empty categories
PayloadSuites ==
  { sizes \in UNION { [1..n -> 1..MaxPayloads] : n \in 1..MaxPayloads } :
      SumSizes(sizes) <= MaxPayloads }

\* where the run stands after the payload at (category, index) got the
\* answer success from send_message: _test_payloads returns False on a
\* falsy answer when stop_on_block, and run_payload_test then breaks (or,
\* with one category, is over); otherwise the next payload, the next
\* category, or the end
Payload_after(run, success) ==
  IF ~success /\ run.stop_on_block
  THEN [run EXCEPT !.pc = "stopped"]
  ELSE IF run.index < run.categories[run.category]
  THEN [run EXCEPT !.index = @ + 1]
  ELSE IF run.payload_type = "all" /\ run.category < Len(run.categories)
  THEN [run EXCEPT !.category = @ + 1, !.index = 1]
  ELSE [run EXCEPT !.pc = "done"]

InitPayload ==
  /\ impl = "bot"
  /\ max_retries = 0
  /\ \/ \E cr \in Credentials :
          /\ chat_id = cr.chatId /\ secure_key = cr.secureKey
          /\ user_id = cr.userId /\ alias = cr.alias
          /\ transcript_position \in 0..MaxPos
     \/ /\ chat_id = None /\ secure_key = None /\ user_id = None /\ alias = None
        /\ transcript_position = NoPos
  /\ request_count = 1
  /\ alive = TRUE
  /\ last = MkLast("init", NoPos, FALSE, NoRequest, NoCall)
  /\ wait = NoWait
  /\ script = <<>>
  /\ http = [attempts |-> 0, wire |-> MkWire("ok", 0, "empty", NoEnvelope),
             outcome |-> Idle, result |-> NoResult, log |-> None]
  /\ source = NoSource
  /\ gen = NoGen
  /\ parse = NoParse
  /\ config_data = IdentityData
  /\ other = NoOther
  /\ callers = NoCallers
  /\ service = NoService
  /\ test = NoTest
  /\ driver = NoDriver

PayloadFrame ==
  UNCHANGED <<impl, max_retries, script, http, source, gen, parse, other, callers,
              service, driver>>

\* run_payload_test(payload_type, delay, stop_on_block) up to its first
\* payload; an unknown payload_type is logged and nothing is sent
run_payload_test ==
  /\ impl = "bot" /\ alive /\ test.pc = "idle"
  /\ \E sizes \in PayloadSuites, stop_on_block \in BOOLEAN :
       \E payload_type \in {"all", "unknown"}
                            \cup { CategoryNames[i] : i \in DOMAIN sizes } :
         test' = [pc |-> IF payload_type = "unknown" THEN "done" ELSE "running",
                  payload_type |-> payload_type,
                  stop_on_block |-> stop_on_block,
                  categories |-> sizes,
                  category |-> IF payload_type \in {"all", "unknown"} THEN 1
                               ELSE CHOOSE i \in DOMAIN sizes :
                                      CategoryNames[i] = payload_type,
                  index |-> 1,
                  sent |-> <<>>]
  /\ UNCHANGED <<session, request_count, alive, last, wait, config_data>>
  /\ PayloadFrame

\* one turn of the loop of _test_payloads: send_message(payload), then the
\* test on its answer
payload_send ==
  /\ test.pc = "running"
  /\ Bot_call("send_message", "send", "False", "True")
  /\ LET success == last'.outcome = Return("True")
         entry == [category |-> test.category, index |-> test.index,
                   requested |-> last'.sent, cause |-> last'.cause,
                   success |-> success]
         run == [test EXCEPT !.sent = Append(@, entry)]
     IN test' = IF ~alive' THEN [run EXCEPT !.pc = "exited"]
                ELSE Payload_after(run, success)
  /\ PayloadFrame

NextPayload ==
  \/ run_payload_test
  \/ payload_send

SpecPayload == InitPayload /\ [][NextPayload]_vars

(***************************************************************************)
(* SpecRace: two threads calling send_message on one lib client that has a *)
(* session.  send_message reads the cursor into the form, blocks in        *)
(* session.post, and stores the response's nextPosition; the class takes   *)
(* no lock, so the two calls interleave at the blocking post.              *)
(***************************************************************************)
InitRace ==
  /\ impl = "lib"
  /\ max_retries = 0
  /\ \E cr \in Credentials :
       /\ chat_id = cr.chatId /\ secure_key = cr.secureKey
       /\ user_id = cr.userId /\ alias = cr.alias
  /\ transcript_position \in 0..MaxPos
  /\ request_count = 0
  /\ alive = TRUE
  /\ last = MkLast("init", NoPos, FALSE, NoRequest, NoCall)
  /\ wait = NoWait
  /\ script = <<>>
  /\ http = [attempts |-> 0, wire |-> MkWire("ok", 0, "empty", NoEnvelope),
             outcome |-> Idle, result |-> NoResult, log |-> None]
  /\ source = NoSource
  /\ gen = NoGen
  /\ parse = NoParse
  /\ config_data = IdentityData
  /\ other = NoOther
  /\ callers = NoCallers
  /\ service = NoService
  /\ test = NoTest
  /\ driver = NoDriver

RaceFrame ==
  UNCHANGED <<impl, max_retries, chat_id, secure_key, user_id, alias, request_count,
              alive, last, wait, config_data, other, tvars, svars, parse, service,
              test, driver>>

\* send_message up to session.post: the session check, the form with the
\* cursor as it is now, and the request on its way
send_message_post(t) ==
  /\ callers[t].pc = "idle"
  /\ callers[t].calls < MaxCalls
  /\ ~Lib_no_session(chat_id)
  /\ callers' = [callers EXCEPT ![t] =
                   [pc |-> "in_flight",
                    sent |-> Lib_request("send", "session",
                                         transcript_position).transcriptPosition,
                    calls |-> @.calls + 1]]
  /\ UNCHANGED transcript_position
  /\ RaceFrame

\* send_message from the response on: the cursor update, or the exception
send_message_response(t) ==
  /\ callers[t].pc = "in_flight"
  /\ \E nr \in LibOpResults :
       /\ nr[1] = max_retries
       /\ transcript_position' =
            IF nr[2].outcome.kind = "return"
            THEN Lib_update_position(transcript_position, nr[2].result)
            ELSE transcript_position
  /\ callers' = [callers EXCEPT ![t].pc = "idle"]
  /\ RaceFrame

NextRace ==
  \/ \E t \in Callers : send_message_post(t)
  \/ \E t \in Callers : send_message_response(t)

SpecRace == InitRace /\ [][NextRace]_vars

(***************************************************************************)
(* SpecTwo: two instances of one client class in one process, their        *)
(* operations interleaved.  The first instance is the client of Spec; the  *)
(* fields of the second are the record `other`, and its operations are the *)
(* same code run on those fields.                                          *)
(***************************************************************************)
\* the session fields an instance stores from a create response
Other_store(c, result, pos) ==
  [c EXCEPT !.chat_id = result.chat_id, !.secure_key = result.secure_key,
            !.user_id = result.user_id, !.alias = result.alias,
            !.transcript_position = pos]

\* the session fields an instance is left with when its session is dropped
Other_clear(c, pos) ==
  [c EXCEPT !.chat_id = None, !.secure_key = None, !.user_id = None, !.alias = None,
            !.transcript_position = pos]

\* the bot's _make_request on the second instance: the request is counted
\* and its form kept in self.config['data']
Other_counted(c, form) ==
  [c EXCEPT !.request_count = @ + 1, !.config_data = form]

\* the form of a session request of the second instance
Other_session_data(c) ==
  [form |-> "session", alias |-> c.alias, secureKey |-> c.secure_key,
   userId |-> c.user_id, transcriptPosition |-> c.transcript_position]

\* lib: the second instance after start_chat got r from _make_request
Other_lib_created(c, r) ==
  IF r.outcome.kind = "return"
  THEN Other_store(c, r.result, Lib_start_position(r.result))
  ELSE c

\* lib: the second instance after send_message got r from _make_request
Other_lib_sent(c, r) ==
  IF r.outcome.kind = "return"
  THEN [c EXCEPT !.transcript_position = Lib_update_position(@, r.result)]
  ELSE c

\* bot: the second instance, and whether the process lives on, after
\* start_chat got r from _make_request
Other_bot_created(c, r) ==
  LET counted == Other_counted(c, c.config_data)
  IN [alive |-> r.outcome.kind # "exit",
      client |-> IF \/ r.outcome.kind = "exit"
                    \/ r.outcome.ret = "None"
                    \/ r.result.chat_id = AbsentS
                 THEN counted
                 ELSE Other_store(counted, r.result, Bot_next_position(r.result, 0))]

\* bot: the same after send_message got r from _make_request
Other_bot_sent(c, r) ==
  LET counted == Other_counted(c, Other_session_data(c))
  IN [alive |-> r.outcome.kind # "exit",
      client |-> IF r.outcome.kind = "exit" \/ r.outcome.ret = "None"
                 THEN counted
                 ELSE [counted EXCEPT !.transcript_position =
                         Bot_next_position(r.result, @)]]

\* a faulty class whose session fields are class attributes, shared by its
\* instances
OtherFrameMutShared ==
  /\ chat_id' = other'.chat_id /\ secure_key' = other'.secure_key
  /\ user_id' = other'.user_id /\ alias' = other'.alias
  /\ transcript_position' = other'.transcript_position
  /\ UNCHANGED <<impl, max_retries, request_count, last, wait, config_data,
                 tvars, svars, parse, callers, service, test, driver>>

\* the fields of an instance are attributes of that instance: an operation
\* on the second one leaves the first one's alone
OtherFrame ==
  UNCHANGED <<impl, max_retries, session, request_count, last, wait, config_data,
              tvars, svars, parse, callers, service, test, driver>>

InitTwo ==
  /\ impl \in {"lib", "bot"}
  /\ max_retries = 0
  /\ chat_id = None /\ secure_key = None /\ user_id = None /\ alias = None
  /\ transcript_position = (IF impl = "lib" THEN 0 ELSE NoPos)
  /\ request_count = 0
  /\ alive = TRUE
  /\ last = MkLast("init", NoPos, FALSE, NoRequest, NoCall)
  /\ wait = NoWait
  /\ script = <<>>
  /\ http = [attempts |-> 0, wire |-> MkWire("ok", 0, "empty", NoEnvelope),
             outcome |-> Idle, result |-> NoResult, log |-> None]
  /\ source = NoSource
  /\ gen = NoGen
  /\ parse = NoParse
  /\ config_data = IdentityData
  /\ other = NewClient(IF impl = "lib" THEN 0 ELSE NoPos)
  /\ callers = NoCallers
  /\ service = NoService
  /\ test = NoTest
  /\ driver = NoDriver

\* start_chat on the second instance
other_start_chat ==
  /\ alive /\ wait.pc = "idle"
  /\ IF impl = "lib"
     THEN /\ other' \in { Other_lib_created(other, nr[2]) :
                              nr \in { x \in LibCreateResults : x[1] = max_retries } }
          /\ UNCHANGED alive
     ELSE /\ other.request_count < MaxOtherRequests
          /\ \E t \in { Other_bot_created(other, r) : r \in BotCreateResults } :
               alive' = t.alive /\ other' = t.client
  /\ OtherFrame

\* send_message on the second instance
other_send_message ==
  /\ alive /\ wait.pc = "idle"
  /\ IF impl = "lib"
     THEN /\ IF Lib_no_session(other.chat_id)
             THEN other' = other
             ELSE other' \in { Other_lib_sent(other, nr[2]) :
                                  nr \in { x \in LibOpResults : x[1] = max_retries } }
          /\ UNCHANGED alive
     ELSE IF other.chat_id = None
          THEN other' = other /\ UNCHANGED alive
          ELSE /\ other.request_count < MaxOtherRequests
               /\ \E t \in { Other_bot_sent(other, r) : r \in BotOpResults } :
                    alive' = t.alive /\ other' = t.client
  /\ OtherFrame

\* disconnect on the second instance
other_disconnect ==
  /\ alive /\ wait.pc = "idle"
  /\ IF impl = "lib"
     THEN IF Lib_no_session(other.chat_id)
          THEN other' = other
          ELSE other' \in { IF nr[2].outcome.kind = "return"
                             THEN Other_clear(other, 0) ELSE other :
                               nr \in { x \in LibOpResults : x[1] = max_retries } }
     ELSE IF other.chat_id = None
          THEN other' = other
          ELSE LET kept == [other EXCEPT !.config_data = Other_session_data(other)]
               IN other' \in { IF w.net # "ok" THEN kept ELSE Other_clear(kept, NoPos) :
                                  w \in BotDisconnectWires }
  /\ UNCHANGED alive
  /\ OtherFrame

NextTwo ==
  \/ start_chat
  \/ send_message
  \/ bot_start_chat
  \/ bot_send_message
  \/ other_start_chat
  \/ other_send_message
  \/ other_disconnect

SpecTwo == InitTwo /\ [][NextTwo]_vars

(***************************************************************************)
(* SpecTransport: one _make_request call.                                  *)
(***************************************************************************)
NoHttp == [attempts |-> 0, wire |-> MkWire("ok", 0, "empty", NoEnvelope),
           outcome |-> Pending, result |-> NoResult, log |-> None]

InitTransport ==
  /\ impl \in {"lib", "bot"}
  /\ max_retries \in (IF impl = "lib" THEN 0..MaxRetries ELSE {0})
  /\ script \in SeqsOfLen(TransportWires, max_retries + 1)
  /\ http = NoHttp
  /\ chat_id = None /\ secure_key = None /\ user_id = None /\ alias = None
  /\ transcript_position = 0
  /\ request_count = 0
  /\ alive = TRUE
  /\ last = MkLast("init", NoPos, FALSE, NoRequest, NoCall)
  /\ wait = NoWait
  /\ source = NoSource
  /\ gen = NoGen
  /\ parse = NoParse
  /\ config_data = IdentityData
  /\ other = NoOther
  /\ callers = NoCallers
  /\ service = NoService
  /\ test = NoTest
  /\ driver = NoDriver

LibMakeRequest ==
  /\ impl = "lib"
  /\ http.outcome = Pending
  /\ \E r \in Lib_make_request(max_retries, script) : http' = r
  /\ UNCHANGED <<impl, max_retries, script, cvars, svars, parse>>

BotMakeRequest ==
  /\ impl = "bot"
  /\ http.outcome = Pending
  /\ \E r \in Bot_make_request(script) : http' = r
  /\ request_count' = request_count + 1
  /\ UNCHANGED <<impl, max_retries, script, chat_id, secure_key, user_id, alias,
                 transcript_position, alive, last, wait, svars, parse, config_data,
                 other, callers, service, test, driver>>

NextTransport == LibMakeRequest \/ BotMakeRequest

SpecTransport == InitTransport /\ [][NextTransport]_vars

(***************************************************************************)
(* SpecDecode: genesys_chat/models.py as a function.  A response body is   *)
(* drawn, ChatOperationResult.from_dict decodes it and is_success is read. *)
(***************************************************************************)
\* wire values of an event's "type": two members of EventType, the value of
\* UNKNOWN itself, a string that is no member, null, and no key at all
DecodeEventTypes == {"Message", "TypingStarted", "Unknown", "Bogus", None, AbsentS}

\* the messages[] arrays decoded, each event carrying its place as index
DecodeMessages ==
  { [i \in DOMAIN ts |-> [type |-> ts[i], index |-> i, from |-> <<>>]] :
      ts \in SeqsUpTo(DecodeEventTypes, MaxDecode) }

\* the bodies decoded
DecodeEnvelopes ==
  { MkEnvelope(sc, errs, NoCredentials, Absent, msgs) :
      sc \in {Absent, 0, 2}, errs \in {<<>>, <<ApiError>>, <<ApiError, ApiError>>},
      msgs \in DecodeMessages }

InitDecode ==
  /\ parse \in { [NoParse EXCEPT !.pc = "raw", !.data = d] : d \in DecodeEnvelopes }
  /\ source = NoSource
  /\ gen = NoGen
  /\ impl = "lib" /\ max_retries = 0
  /\ chat_id = None /\ secure_key = None /\ user_id = None /\ alias = None
  /\ transcript_position = 0
  /\ request_count = 0
  /\ alive = TRUE
  /\ last = MkLast("init", NoPos, FALSE, NoRequest, NoCall)
  /\ wait = NoWait
  /\ script = <<>>
  /\ http = NoHttp
  /\ config_data = IdentityData
  /\ other = NoOther
  /\ callers = NoCallers
  /\ service = NoService
  /\ test = NoTest
  /\ driver = NoDriver

\* result = ChatOperationResult.from_dict(data); result.is_success
Decode ==
  /\ parse.pc = "raw"
  /\ parse' = [parse EXCEPT !.pc = "decoded",
                            !.result = from_dict(parse.data),
                            !.ok = is_success(from_dict(parse.data))]
  /\ UNCHANGED <<impl, max_retries, cvars, tvars, svars>>

NextDecode == Decode

SpecDecode == InitDecode /\ [][NextDecode]_vars

(***************************************************************************)
(* SpecRound: a model object is drawn, to_dict encodes it and from_dict    *)
(* decodes the dictionary again.                                           *)
(***************************************************************************)
\* Participant objects: the default one and a filled one
RoundParticipants ==
  { [nickname |-> None, participant_id |-> NoPos, type |-> None],
    [nickname |-> "Agent", participant_id |-> 1, type |-> "Agent"],
    [nickname |-> Empty, participant_id |-> 0, type |-> None] }

\* Event objects, with and without a from-participant
RoundEvents ==
  { [type |-> t, index |-> i, from_participant |-> f] :
      t \in {"Message", "ParticipantJoined", "Unknown"},
      i \in {NoPos, 0, 1},
      f \in {<<>>} \cup { <<q>> : q \in RoundParticipants } }

\* WebAPIErrorInfo objects
RoundErrors ==
  { [code |-> 2, message |-> "err", advice |-> None],
    [code |-> 0, message |-> Empty, advice |-> "retry"] }

\* ChatOperationResult objects
RoundResults ==
  { [status_code |-> sc, chat_id |-> cid, secure_key |-> cid, user_id |-> None,
     alias |-> None, next_position |-> np, messages |-> msgs, errors |-> errs] :
      sc \in {0, 2}, cid \in {None, "C1"}, np \in {NoPos, 0},
      msgs \in SeqsUpTo(RoundEvents, MaxRound), errs \in SeqsUpTo(RoundErrors, MaxRound) }

InitRound ==
  /\ parse \in { [NoParse EXCEPT !.pc = "object", !.object = r] : r \in RoundResults }
  /\ source = NoSource
  /\ gen = NoGen
  /\ impl = "lib" /\ max_retries = 0
  /\ chat_id = None /\ secure_key = None /\ user_id = None /\ alias = None
  /\ transcript_position = 0
  /\ request_count = 0
  /\ alive = TRUE
  /\ last = MkLast("init", NoPos, FALSE, NoRequest, NoCall)
  /\ wait = NoWait
  /\ script = <<>>
  /\ http = NoHttp
  /\ config_data = IdentityData
  /\ other = NoOther
  /\ callers = NoCallers
  /\ service = NoService
  /\ test = NoTest
  /\ driver = NoDriver

\* data = result.to_dict()
Encode ==
  /\ parse.pc = "object"
  /\ parse' = [parse EXCEPT !.pc = "raw", !.data = to_dict(parse.object)]
  /\ UNCHANGED <<impl, max_retries, cvars, tvars, svars>>

NextRound == Encode \/ Decode

SpecRound == InitRound /\ [][NextRound]_vars

(***************************************************************************)
(* SpecWait: wait_for_message of the lib client alone, against a gateway   *)
(* whose refresh responses carry up to MaxWaitEvents events, called with   *)
(* negative, zero and positive timeouts, with and without a session.       *)
(***************************************************************************)
\* the messages[] arrays a refresh of the wait is answered with
WaitMessages ==
  { [i \in DOMAIN ts |-> [type |-> ts[i], index |-> i, from |-> <<>>]] :
      ts \in SeqsUpTo(WireEventTypes, MaxWaitEvents) }

WaitEnvelopes ==
  { MkEnvelope(sc, errs, NoCredentials, np, msgs) :
      sc \in {0, 2}, errs \in {<<>>, <<ApiError>>},
      np \in {Absent} \cup (0..MaxPos), msgs \in WaitMessages }

\* results of the refresh requests of a wait, paired with max_retries
LibWaitResults ==
  { x : x \in UNION { { <<n, r>> : r \in UNION { Project(Lib_make_request(n, s)) :
                                                   s \in ClientScripts(n, WaitEnvelopes) } } :
                      n \in 0..MaxRetries } }

InitWait ==
  /\ impl = "lib"
  /\ max_retries \in 0..MaxRetries
  /\ \E cr \in Credentials \cup {[chatId |-> None, secureKey |-> None,
                                    userId |-> None, alias |-> None]} :
       /\ chat_id = cr.chatId /\ secure_key = cr.secureKey
       /\ user_id = cr.userId /\ alias = cr.alias
  /\ transcript_position \in 0..MaxPos
  /\ request_count = 0
  /\ alive = TRUE
  /\ last = MkLast("init", NoPos, FALSE, NoRequest, NoCall)
  /\ wait = NoWait
  /\ script = <<>>
  /\ http = NoHttp
  /\ source = NoSource
  /\ gen = NoGen
  /\ parse = NoParse
  /\ config_data = IdentityData
  /\ other = NoOther
  /\ callers = NoCallers
  /\ service = NoService
  /\ test = NoTest
  /\ driver = NoDriver

\* the caller enters wait_for_message
wait_call ==
  \E timeout \in (0 - 1)..MaxTimeout, event_type \in AskedTypes :
    wait_for_message(timeout, event_type)

\* one turn of the loop against the gateway of this specification
wait_poll == Wait_poll(LibWaitResults)

NextWait == wait_call \/ wait_poll

\* the thread in wait_for_message keeps running: the loop takes its next turn
SpecWait == InitWait /\ [][NextWait]_vars /\ WF_vars(wait_poll)

(***************************************************************************)
(* SpecMain: main() of genesys_bot.py from the point where start_chat has  *)
(* returned True.  driver.trace lists, in order, the client calls main and *)
(* the selected mode made ("refresh", "send", "disconnect") and the entry  *)
(* into the try block ("try"); driver.raised is the exception in flight.   *)
(* An exception that sys.exit raised inside _make_request unwinds main:    *)
(* the finally clause runs if the try block had been entered.              *)
(***************************************************************************)
Modes == {"file", "payload", "interactive", "external", "hybrid", "simple"}

MainFrame ==
  UNCHANGED <<impl, max_retries, script, http, source, gen, parse, other, callers,
              service, test>>

InitMain ==
  /\ impl = "bot"
  /\ max_retries = 0
  /\ \E cr \in Credentials :
       /\ chat_id = cr.chatId /\ secure_key = cr.secureKey
       /\ user_id = cr.userId /\ alias = cr.alias
  /\ transcript_position \in {NoPos} \cup (0..MaxPos)
  /\ request_count = 1
  /\ alive = TRUE
  /\ config_data = IdentityData
  /\ last = MkLast("start_chat", NoPos, FALSE, Bot_create_request,
                   [NoCall EXCEPT !.outcome = Return("True")])
  /\ wait = NoWait
  /\ script = <<>>
  /\ http = NoHttp
  /\ source = NoSource
  /\ gen = NoGen
  /\ parse = NoParse
  /\ other = NoOther
  /\ callers = NoCallers
  /\ service = NoService
  /\ test = NoTest
  /\ \E mode \in Modes, file \in BOOLEAN :
       driver = [NoDriver EXCEPT !.pc = "initial_refresh", !.mode = mode, !.file = file]

\* a client call of the driver: the call is listed, and a sys.exit inside it
\* is in flight as SystemExit
Main_call(op, endpoint, failure, ret, next, unwound) ==
  /\ Bot_call_within(MaxMainRequests, op, endpoint, failure, ret)
  /\ driver' = IF ~alive'
               THEN [driver EXCEPT !.trace = Append(@, endpoint), !.pc = unwound,
                                   !.raised = "SystemExit"]
               ELSE [driver EXCEPT !.trace = Append(@, endpoint), !.pc = next]
  /\ MainFrame

\* `client.refresh(delay=2)` before the try block
main_initial_refresh ==
  /\ driver.pc = "initial_refresh"
  /\ Main_call("refresh", "refresh", "None", "messages", "try", "ended")

\* Ctrl-C while main is before the try block (in the sleep of the initial
\* refresh or in its request): nothing catches it
main_interrupt_early ==
  /\ driver.pc = "initial_refresh"
  /\ driver' = [driver EXCEPT !.pc = "ended", !.raised = "KeyboardInterrupt"]
  /\ UNCHANGED <<session, request_count, alive, last, wait, config_data>>
  /\ MainFrame

\* the try block is entered and the mode's arguments are looked at
main_select_mode ==
  /\ driver.pc = "try"
  /\ IF driver.mode \in {"file", "hybrid"} /\ ~driver.file
     THEN driver' = [driver EXCEPT !.trace = Append(@, "try"), !.pc = "finally",
                                   !.raised = "SystemExit"]
     ELSE driver' = [driver EXCEPT !.trace = Append(@, "try"), !.pc = "mode"]
  /\ UNCHANGED <<session, request_count, alive, last, wait, config_data>>
  /\ MainFrame

\* the calls the mode has made
ModeCalls ==
  LET in_mode(op) == op \in {"send", "refresh"}
      since_try == SubSeq(driver.trace, 3, Len(driver.trace))
  IN SelectSeq(since_try, in_mode)

\* the selected mode sends a message
main_mode_send ==
  /\ driver.pc = "mode"
  /\ driver.mode = "simple" => ModeCalls = <<>>
  /\ Main_call("send_message", "send", "False", "True", "mode", "finally")

\* the selected mode refreshes
main_mode_refresh ==
  /\ driver.pc = "mode"
  /\ driver.mode = "simple" => ModeCalls = <<"send">>
  /\ Main_call("refresh", "refresh", "None", "messages", "mode", "finally")

\* the selected mode returns
main_mode_returns ==
  /\ driver.pc = "mode"
  /\ driver.mode = "simple" => ModeCalls = <<"send", "refresh">>
  /\ driver' = [driver EXCEPT !.pc = "finally"]
  /\ UNCHANGED <<session, request_count, alive, last, wait, config_data>>
  /\ MainFrame

\* Ctrl-C inside the try block: `except KeyboardInterrupt` logs it
main_interrupt ==
  /\ driver.pc = "mode"
  /\ driver' = [driver EXCEPT !.pc = "finally", !.raised = "KeyboardInterrupt"]
  /\ UNCHANGED <<session, request_count, alive, last, wait, config_data>>
  /\ MainFrame

\* `finally: client.disconnect()`, then the process ends
main_finally ==
  /\ driver.pc = "finally"
  /\ Bot_disconnect_call
  /\ driver' = [driver EXCEPT !.trace = Append(@, "disconnect"), !.pc = "ended"]
  /\ MainFrame

NextMain ==
  \/ main_initial_refresh
  \/ main_interrupt_early
  \/ main_select_mode
  \/ main_mode_send
  \/ main_mode_refresh
  \/ main_mode_returns
  \/ main_interrupt
  \/ main_finally

SpecMain == InitMain /\ [][NextMain]_vars

(***************************************************************************)
(* SpecExit: the lib client used as a context manager.  The body of the    *)
(* `with` block starts chats and sends messages; __exit__ closes it.       *)
(* The client may hold a chat id of "" (a create response whose chatId is  *)
(* the empty string), for which is_active is true and disconnect refuses.  *)
(***************************************************************************)
\* a faulty handler that lets disconnect's exception through
ExitMutPropagates(r) == r

\* `try: self.disconnect() except Exception as e: logger.error(...)`,
\* then the implicit `return None`
Exit_swallow(r) ==
  IF r.outcome.kind = "raise"
  THEN [r EXCEPT !.outcome = Return("None"), !.log = "Error disconnecting"]
  ELSE [r EXCEPT !.outcome = Return("None")]

\* __exit__(exc_type, exc_val, exc_tb)
context_exit ==
  /\ LibReady
  /\ IF ~is_active
     THEN /\ last' = MkLast("__exit__", NoPos, FALSE, NoRequest,
                            [NoCall EXCEPT !.outcome = Return("None")])
          /\ UNCHANGED session
     ELSE IF Lib_no_session(chat_id)
     THEN /\ last' = MkLast("__exit__", NoPos, TRUE, NoRequest, Exit_swallow(NoSession))
          /\ UNCHANGED session
     ELSE \E nr \in LibOpResults :
          LET r == nr[2] IN
          /\ nr[1] = max_retries
          /\ last' = MkLast("__exit__", NoPos, TRUE,
                            Lib_request("disconnect", "session", transcript_position),
                            Exit_swallow(r))
          /\ IF r.outcome.kind = "return"
             THEN /\ chat_id' = None /\ secure_key' = None
                  /\ user_id' = None /\ alias' = None
                  /\ transcript_position' = 0
             ELSE UNCHANGED session
  /\ UNCHANGED <<request_count, alive, wait>>
  /\ Frame

InitExit ==
  /\ impl = "lib"
  /\ max_retries \in 0..MaxRetries
  /\ \E cr \in Credentials \cup
               {[chatId |-> None, secureKey |-> None, userId |-> None, alias |-> None],
                [chatId |-> Empty, secureKey |-> "K1", userId |-> "U1", alias |-> "A1"]} :
       /\ chat_id = cr.chatId /\ secure_key = cr.secureKey
       /\ user_id = cr.userId /\ alias = cr.alias
  /\ transcript_position \in 0..MaxPos
  /\ request_count = 0
  /\ alive = TRUE
  /\ last = MkLast("init", NoPos, FALSE, NoRequest, NoCall)
  /\ wait = NoWait
  /\ script = <<>>
  /\ http = NoHttp
  /\ source = NoSource
  /\ gen = NoGen
  /\ parse = NoParse
  /\ config_data = IdentityData
  /\ other = NoOther
  /\ callers = NoCallers
  /\ service = NoService
  /\ test = NoTest
  /\ driver = NoDriver

NextExit == start_chat \/ send_message \/ context_exit

SpecExit == InitExit /\ [][NextExit]_vars

(***************************************************************************)
(* SpecSrc: conversation_sources.py.  One source object of one of the      *)
(* three classes, its chat service, and the generator get_messages()       *)
(* returned.  get_messages() is a generator: creating it runs no code, and *)
(* each next() of the consumer runs it from where it was suspended to its  *)
(* next yield or to its end.  The consumers in the repository              *)
(* (run_from_source, the tests) drain a generator to its end and call      *)
(* reset() between drains only.                                            *)
(*                                                                         *)
(* gen also keeps what a consumer can have noted: the texts yielded, the   *)
(* adapter calls made (prompt and response), the number of prompts among   *)
(* the texts, the texts of the drain before, and whether reset() was       *)
(* called since.                                                           *)
(***************************************************************************)
\* the prompts __init__ substitutes for a missing or empty list
DefaultPrompts == <<"d1", "d2", "d3">>

\* the list `followups` of _generate_followup
Followups == <<"f0", "f1", "f2", "f3", "f4">>

\* seed prompt lists a caller passes (the empty one stands for None too)
SeedPrompts == SeqsUpTo({"p1", "p2"}, MaxPrompts)

\* what chat_service.send_message can return
Responses == [success : BOOLEAN, message : {None, Empty, "reply", "reply2"}]

\* the lines a file is sampled at: text, text in white space, white space
RawLines == {"a", " a ", "b", "  "}

\* str.strip
Strip(line) ==
  CASE line = " a " -> "a"
    [] line = "  " -> Empty
    [] OTHER -> line

\* FileConversationSource._load_messages; exists: whether the file can be read
NonEmptyLine(line) == line # Empty
load_messages(exists, lines) ==
  IF ~exists THEN <<>>
  ELSE SelectSeq([i \in DOMAIN lines |-> Strip(lines[i])], NonEmptyLine)

\* ExternalServiceConversationSource.__init__
Source_init(initial_prompts, max_turns, context_mode) ==
  [NoSource EXCEPT
     !.kind = "external",
     !.initial_prompts = IF initial_prompts # <<>> THEN initial_prompts ELSE DefaultPrompts,
     !.max_turns = max_turns, !.context_mode = context_mode]

\* FileConversationSource.__init__
File_init(exists, lines) ==
  [NoSource EXCEPT !.kind = "file", !.messages = load_messages(exists, lines)]

\* HybridConversationSource.__init__
Hybrid_init(exists, lines, get_responses) ==
  [NoSource EXCEPT !.kind = "hybrid", !.messages = load_messages(exists, lines),
                   !.get_responses = get_responses]

\* _generate_followup
FollowupMutTurn(s) == Followups[(s.current_turn % Len(Followups)) + 1]
generate_followup(s) == Followups[((s.current_turn \div 2) % Len(Followups)) + 1]

\* a faulty has_messages that never reports the end
HasMutAlways(s) == TRUE

\* has_messages
has_messages(s) == s.current_turn < s.max_turns

\* FileConversationSource.has_messages (and the Hybrid's, which delegates)
File_has_messages(s) == s.current_index < Len(s.messages)

\* the head of get_messages' loop, from the `while` test to `yield prompt`
\* or to the end of the generator
LoopHead(s) ==
  IF ~(s.current_turn < s.max_turns) THEN [source |-> s, pc |-> "done", out |-> None]
  ELSE IF s.prompt_index < Len(s.initial_prompts)
  THEN [source |-> [s EXCEPT !.prompt_index = @ + 1], pc |-> "after_prompt",
        out |-> s.initial_prompts[s.prompt_index + 1]]
  ELSE IF s.generated_messages # <<>>
  THEN [source |-> s, pc |-> "after_prompt", out |-> generate_followup(s)]
  ELSE [source |-> s, pc |-> "done", out |-> None]

\* a faulty loop of FileConversationSource.get_messages that does not advance
FileMutNoAdvance(s) ==
  IF s.current_index < Len(s.messages)
  THEN [source |-> s, pc |-> "after_prompt", out |-> s.messages[s.current_index + 1]]
  ELSE [source |-> s, pc |-> "done", out |-> None]

\* FileConversationSource.get_messages from its `while` test to its yield
\* or to its end
File_step(s) ==
  IF s.current_index < Len(s.messages)
  THEN [source |-> [s EXCEPT !.current_index = @ + 1], pc |-> "after_prompt",
        out |-> s.messages[s.current_index + 1]]
  ELSE [source |-> s, pc |-> "done", out |-> None]

InitSrc ==
  /\ \/ \E initial_prompts \in SeedPrompts, k \in 0..MaxTurns, context_mode \in BOOLEAN :
          source = Source_init(initial_prompts, k, context_mode)
     \/ \E exists \in BOOLEAN, lines \in SeqsUpTo(RawLines, MaxLines) :
          source = File_init(exists, lines)
     \/ \E exists \in BOOLEAN, lines \in SeqsUpTo(RawLines, MaxLines),
           get_responses \in BOOLEAN :
          source = Hybrid_init(exists, lines, get_responses)
  /\ gen = NoGen
  /\ parse = NoParse
  /\ config_data = IdentityData
  /\ other = NoOther
  /\ callers = NoCallers
  /\ service = NoService
  /\ test = NoTest
  /\ driver = NoDriver
  /\ impl = "lib" /\ max_retries = 0
  /\ chat_id = None /\ secure_key = None /\ user_id = None /\ alias = None
  /\ transcript_position = 0
  /\ request_count = 0
  /\ alive = TRUE
  /\ last = MkLast("init", NoPos, FALSE, NoRequest, NoCall)
  /\ wait = NoWait
  /\ script = <<>>
  /\ http = NoHttp

SrcFrame == UNCHANGED <<impl, max_retries, cvars, tvars, parse>>

\* source.get_messages(): a new generator, suspended before its first line
Src_get_messages_step ==
  /\ gen.pc \in {"none", "done"}
  /\ gen.drains < MaxDrains
  /\ gen' = [pc |-> "start", yielded |-> <<>>, calls |-> 0, drains |-> gen.drains + 1,
             asked |-> <<>>, prompts |-> 0, before |-> gen.yielded,
             rewound |-> gen.reset, reset |-> FALSE, had |-> 0]
  /\ UNCHANGED source

src_get_messages == Src_get_messages_step /\ SrcFrame

\* the generator is suspended and its consumer pulls
Pulling(kind) ==
  /\ source.kind = kind
  /\ gen.pc \in {"start", "after_prompt", "after_reply"}
  /\ Len(gen.yielded) < MaxYield

\* what one next() does with the generator's step `step`, the adapter calls
\* of the drain being `asked` after it
Resume(step, asked) ==
  /\ source' = step.source
  /\ gen' = [gen EXCEPT !.pc = step.pc, !.calls = Len(asked), !.asked = asked,
                        !.prompts = IF step.pc = "after_prompt" THEN @ + 1 ELSE @,
                        !.yielded = IF step.pc = "done" THEN @ ELSE Append(@, step.out)]

\* one call of chat_service.send_message recorded
Asked(prompt, response) == Append(gen.asked, [prompt |-> prompt, response |-> response])

\* next() on the generator of ExternalServiceConversationSource.get_messages
Src_next_step ==
  /\ Pulling("external")
  /\ IF gen.pc = "start" THEN Resume(LoopHead(source), gen.asked)
     ELSE LET turned == [source EXCEPT !.current_turn = @ + 1]
              prompt == gen.yielded[Len(gen.yielded)]
          IN IF gen.pc = "after_prompt" /\ has_messages(turned)
             THEN \E response \in Responses, grown \in 0..2 :
                    LET called == [turned EXCEPT !.history = @ + grown]
                    IN IF response.success /\ Truthy(response.message)
                       THEN Resume([source |-> [called EXCEPT !.generated_messages =
                                                  Append(@, response.message)],
                                    pc |-> "after_reply", out |-> response.message],
                                   Asked(prompt, response))
                       ELSE Resume(LoopHead(called), Asked(prompt, response))
             ELSE Resume(LoopHead(turned), gen.asked)

src_next == Src_next_step /\ SrcFrame

\* next() on the generator of FileConversationSource.get_messages
File_next_step ==
  /\ Pulling("file")
  /\ Resume(File_step(source), gen.asked)

file_next == File_next_step /\ SrcFrame

\* a faulty HybridConversationSource that asks the adapter whatever
\* get_responses says
HybridMutAlwaysAsks(s) == TRUE

\* HybridConversationSource.get_messages: `if self.get_responses`
Hybrid_asks(s) == s.get_responses

\* next() on the generator of HybridConversationSource.get_messages, which
\* pulls the file source's generator in its for loop
Hybrid_next_step ==
  /\ Pulling("hybrid")
  /\ IF gen.pc = "after_prompt" /\ Hybrid_asks(source)
     THEN \E response \in Responses, grown \in 0..2 :
            LET called == [source EXCEPT !.history = @ + grown]
                prompt == gen.yielded[Len(gen.yielded)]
            IN IF response.success /\ Truthy(response.message)
               THEN Resume([source |-> called, pc |-> "after_reply",
                            out |-> response.message],
                           Asked(prompt, response))
               ELSE Resume(File_step(called), Asked(prompt, response))
     ELSE Resume(File_step(source), gen.asked)

hybrid_next == Hybrid_next_step /\ SrcFrame

\* a faulty reset that never clears the adapter's history
ResetMutNever(s) == s.history

\* reset of ExternalServiceConversationSource: what becomes of the
\* adapter's history
Reset_history(s) == IF ~s.context_mode THEN 0 ELSE s.history

\* ExternalServiceConversationSource.reset()
src_reset ==
  /\ source.kind = "external"
  /\ gen.pc \in {"none", "done"}
  /\ source' = [source EXCEPT !.current_turn = 0, !.generated_messages = <<>>,
                              !.prompt_index = 0,
                              !.history = Reset_history(source)]
  /\ gen' = [gen EXCEPT !.reset = TRUE, !.had = source.history]
  /\ SrcFrame

\* a faulty FileConversationSource.reset that leaves the index where it is
FileResetMutKeep(s) == s.current_index

\* FileConversationSource.reset: the index it sets
File_reset_index(s) == 0

\* FileConversationSource.reset()
file_reset ==
  /\ source.kind = "file"
  /\ gen.pc \in {"none", "done"}
  /\ source' = [source EXCEPT !.current_index = File_reset_index(source)]
  /\ gen' = [gen EXCEPT !.reset = TRUE]
  /\ SrcFrame

\* HybridConversationSource.reset()
hybrid_reset ==
  /\ source.kind = "hybrid"
  /\ gen.pc \in {"none", "done"}
  /\ source' = [source EXCEPT !.current_index = File_reset_index(source), !.history = 0]
  /\ gen' = [gen EXCEPT !.reset = TRUE]
  /\ SrcFrame

\* the consumer's for loop pulls the generator
Pull == src_next \/ file_next \/ hybrid_next

NextSrc ==
  \/ src_get_messages
  \/ src_next
  \/ file_next
  \/ hybrid_next
  \/ src_reset
  \/ file_reset
  \/ hybrid_reset

SpecSrc == InitSrc /\ [][NextSrc]_vars

\* the same with a consumer that goes on pulling a generator it has begun
SpecSrcFair == SpecSrc /\ WF_vars(Pull)

(***************************************************************************)
(* SpecRun: ConversationBot.run_from_source over a bot client that holds a *)
(* session.  driver.pc is where the for loop is; driver.trace lists the    *)
(* send_message and refresh calls of the loop in order, each with the text *)
(* it was made for and what it returned ("exit": sys.exit ended it).       *)
(***************************************************************************)
\* envelopes answering the requests of the loop: no events, the cursor moved
\* or not
RunEnvelopes ==
  { MkEnvelope(sc, errs, NoCredentials, np, <<>>) :
      sc \in {0, 2}, errs \in {<<>>, <<ApiError>>}, np \in {Absent, 1} }

\* results of the requests of the loop
BotRunResults ==
  { x : x \in UNION { Project(Bot_make_request(<<w>>)) : w \in FinalWires(RunEnvelopes) } }

RunFrame == UNCHANGED <<impl, max_retries, tvars, parse, other, callers, service, test>>

InitRun ==
  /\ \/ \E initial_prompts \in SeedPrompts, k \in 0..MaxRunTurns, context_mode \in BOOLEAN :
          source = Source_init(initial_prompts, k, context_mode)
     \/ \E exists \in BOOLEAN, lines \in SeqsUpTo(RawLines, MaxLines) :
          source = File_init(exists, lines)
     \/ \E exists \in BOOLEAN, lines \in SeqsUpTo(RawLines, MaxLines),
           get_responses \in BOOLEAN :
          source = Hybrid_init(exists, lines, get_responses)
  /\ gen = NoGen
  /\ parse = NoParse
  /\ config_data = IdentityData
  /\ other = NoOther
  /\ callers = NoCallers
  /\ service = NoService
  /\ test = NoTest
  /\ driver = NoDriver
  /\ impl = "bot" /\ max_retries = 0
  /\ chat_id = "C1" /\ secure_key = "K1" /\ user_id = "U1" /\ alias = "A1"
  /\ transcript_position = 0
  /\ request_count = 0
  /\ alive = TRUE
  /\ last = MkLast("init", NoPos, FALSE, NoRequest, NoCall)
  /\ wait = NoWait
  /\ script = <<>>
  /\ http = NoHttp

\* a faulty loop that ends when send_message returns False
RunMutStopsOnReject(success) == IF success THEN "refresh" ELSE "done"

\* where the loop goes after send_message returned: its value is not looked at
Run_after_send(success) == "refresh"

\* run_from_source(source) up to the for loop: source.get_messages()
run_from_source ==
  /\ driver.pc = "none"
  /\ Src_get_messages_step
  /\ driver' = [driver EXCEPT !.pc = "pull"]
  /\ UNCHANGED <<session, request_count, alive, last, wait, config_data>>
  /\ RunFrame

\* `for message in ...`: next() on the generator; the loop ends with it
run_pull ==
  /\ driver.pc = "pull"
  /\ Src_next_step \/ File_next_step \/ Hybrid_next_step
  /\ driver' = [driver EXCEPT !.pc = IF gen'.pc = "done" THEN "done" ELSE "send"]
  /\ UNCHANGED <<session, request_count, alive, last, wait, config_data>>
  /\ RunFrame

\* what a call of the loop is listed as
RunEntry(op) ==
  [op |-> op, text |-> gen.yielded[Len(gen.yielded)],
   ret |-> IF ~alive' THEN "exit" ELSE last'.outcome.ret]

\* `self.client.send_message(message, delay=delay)`
run_send ==
  /\ driver.pc = "send"
  /\ Bot_call_answered(BotRunResults, MaxRunRequests, "send_message", "send", "False", "True")
  /\ driver' = [driver EXCEPT !.trace = Append(@, RunEntry("send")),
                              !.pc = IF ~alive' THEN "exited"
                                     ELSE Run_after_send(last'.outcome = Return("True"))]
  /\ UNCHANGED <<source, gen>>
  /\ RunFrame

\* `self.client.refresh(delay=1)`
run_refresh ==
  /\ driver.pc = "refresh"
  /\ Bot_call_answered(BotRunResults, MaxRunRequests, "refresh", "refresh", "None", "messages")
  /\ driver' = [driver EXCEPT !.trace = Append(@, RunEntry("refresh")),
                              !.pc = IF ~alive' THEN "exited" ELSE "pull"]
  /\ UNCHANGED <<source, gen>>
  /\ RunFrame

NextRun == run_from_source \/ run_pull \/ run_send \/ run_refresh

SpecRun == InitRun /\ [][NextRun]_vars

(***************************************************************************)
(* Properties.                                                             *)
(*                                                                         *)
(* Vocabulary: what a caller and the gateway can observe of a call c (a    *)
(* value of `last`).                                                       *)
(***************************************************************************)
\* the call sent a request and came back with its success value
Succeeded(c) ==
  c.sent /\ c.outcome.kind = "return" /\ c.outcome.ret \notin {"None", "False"}

\* the operations of an established session that leave it established
CursorOps ==
  {"refresh", "send_message", "send_custom_notice", "start_typing", "stop_typing",
   "upload_file", "check_file_limits", "delete_file", "download_file",
   "update_nickname", "update_user_data", "set_push_url", "send_read_receipt",
   "get_messages", "wait_for_message"}

\* the response behind result r carried a number as nextPosition
CarriesPosition(r) == r.next_position >= 0

\* the response behind result r carried no nextPosition (the lib's decoder
\* does not tell a null from a missing key)
LacksPosition(r) ==
  r.next_position = Absent \/ (impl = "lib" /\ r.next_position = NoPos)

\* C1 (as stated): across successful operations on one session the tracked
\* transcriptPosition after each operation is greater than or equal to its
\* value before the operation.
C1_NeverDecreases ==
  [][ (last'.op \in CursorOps /\ last'.had_session /\ Succeeded(last'))
        => transcript_position' >= transcript_position ]_vars

\* C1 (amended): the tracked transcriptPosition does not decrease across a
\* successful operation on one session, provided the operation is not a
\* refresh whose position override is below the tracked position and the
\* response's nextPosition, when present, is a number not below the position
\* the request sent.
C1_NeverDecreasesUnlessRewound ==
  [][ ( /\ last'.op \in CursorOps /\ last'.had_session /\ Succeeded(last')
        /\ last'.op = "refresh" =>
             (last'.arg = NoPos \/ last'.arg >= transcript_position)
        /\ \/ LacksPosition(last'.result)
           \/ /\ CarriesPosition(last'.result)
              /\ last'.result.next_position >= last'.req.transcriptPosition )
        => transcript_position' >= transcript_position ]_vars

\* C1 witness: a refresh with an override at the top of the range succeeded
\* and the gateway's nextPosition was stored
C1_Witness ==
  /\ last.op = "refresh" /\ last.had_session /\ Succeeded(last)
  /\ last.arg = MaxPos
  /\ last.result.next_position = MaxPos
  /\ transcript_position = MaxPos

\* how each client reports a call made without a session: the lib raises
\* GenesysChatAPIError("No active chat session"), the bot logs it and returns
\* its failure value; neither sends a request
NoActiveSessionFailure(c) ==
  /\ ~c.sent
  /\ IF impl = "lib"
     THEN c.outcome = Raise("GenesysChatAPIError", "No active chat session")
     ELSE /\ c.outcome.kind = "return" /\ c.outcome.ret \in {"None", "False"}
          /\ c.log \in {"No active chat session", "No active chat session to disconnect"}

\* C2: every operation other than start_chat, called while no session is
\* active, fails with the no-active-session failure.
C2_NoSessionFails ==
  (last.op \in CursorOps \cup {"disconnect"} /\ ~last.had_session /\ last.outcome # Pending)
    => NoActiveSessionFailure(last)

\* C3: disconnect, called with an active session, leaves chatId, secureKey,
\* userId and alias cleared whatever became of the disconnect request.
C3_DisconnectClears ==
  (last.op = "disconnect" /\ last.had_session)
    => (chat_id = None /\ secure_key = None /\ user_id = None /\ alias = None)

\* an attempt answered with HTTP 403 or with a body holding "Forbidden"
LooksBlocked(w) == w.net = "ok" /\ (w.status = 403 \/ w.body = "forbidden")

\* exceptions.py has no class for a blocked response
LibBlockedExceptions == {}

\* the call's outcome names the response as blocked
ClassifiedBlocked(h) ==
  IF impl = "bot" THEN h.outcome = Return("None") /\ h.log = "WAF BLOCKED"
  ELSE h.outcome.kind = "raise" /\ h.outcome.exc \in LibBlockedExceptions

\* C4: a request whose response has status 403 or a body holding "Forbidden"
\* is attempted exactly once and its outcome is classified as blocked, also
\* when the status is one of 429, 500, 502, 503, 504.
C4_BlockedOnce ==
  (http.outcome # Pending /\ LooksBlocked(script[1]))
    => (http.attempts = 1 /\ ClassifiedBlocked(http))

\* the failure kinds and the outcomes each client produces for them
LibFailureOutcomes ==
  { t \in UNION { { [cause |-> Cause(w), outcome |-> c.outcome] : c \in Lib_classify(w) } :
                    w \in TransportWires } : t.cause # "ok" }

BotFailureOutcomes ==
  { t \in UNION { { [cause |-> Cause(w), outcome |-> c.outcome] :
                      c \in Bot_make_request(<<w>>) } :
                    w \in TransportWires } : t.cause # "ok" }

\* C5: the outcome a caller observes of a failed request tells the failure
\* kind: no two kinds (blocked, status, API error, connection, timeout,
\* undecodable body) come back as the same outcome.
C5_Distinguishable ==
  (http.outcome # Pending /\ Cause(http.wire) # "ok")
    => \A t \in (IF impl = "lib" THEN LibFailureOutcomes ELSE BotFailureOutcomes) :
         t.outcome = http.outcome => t.cause = Cause(http.wire)

\* C6: a 2xx response whose envelope has statusCode # 0 or a non-empty errors
\* array is returned to the caller as a non-success result, not raised.
C6_ApiErrorReturned ==
  (http.outcome # Pending /\ Cause(http.wire) = "api_error")
    => (http.outcome.kind = "return" /\ ~is_success(http.result))

\* C7: a request is re-attempted only after an attempt that returned a status
\* in {429, 500, 502, 503, 504}, and at most max_retries times.
C7_RetryOnlyTransient ==
  http.outcome # Pending
    => /\ http.attempts <= max_retries + 1
       /\ \A j \in 1..(http.attempts - 1) :
            script[j].net = "ok" /\ script[j].status \in RetryStatuses

C9_NextRequestSendsNextPosition ==
  [][ ( /\ last.op \in CursorOps /\ Succeeded(last) /\ CarriesPosition(last.result)
        /\ last'.op \in CursorOps \ {"send_read_receipt"} /\ last'.sent
        /\ ~(last'.op = "refresh" /\ last'.arg # NoPos) )
        => last'.req.transcriptPosition = last.result.next_position ]_vars

\* C10: one drain of ExternalServiceConversationSource yields at most
\* max_turns messages, prompts and replies together.
C10_AtMostMaxTurns ==
  source.kind = "external" => Len(gen.yielded) <= source.max_turns

\* C10 witness: a drain over the largest max_turns came to its end having
\* yielded max_turns messages, replies among them, with a failed adapter call
C10_WitnessFull ==
  /\ source.kind = "external"
  /\ gen.pc = "done"
  /\ source.max_turns = MaxTurns
  /\ Len(gen.yielded) = source.max_turns
  /\ source.generated_messages # <<>>
  /\ gen.calls > Len(source.generated_messages)

\* C11: a drain of any of the three sources that has been begun comes to its
\* end when the consumer goes on pulling, whatever the lists, max_turns and
\* the adapter's answers.
\* The pulls are finitely many: at most one per line of a file, two per line
\* of a hybrid source, max_turns of a generated one, and the closing one.
DrainBound(s) ==
  CASE s.kind = "file" -> Len(s.messages)
    [] s.kind = "hybrid" -> 2 * Len(s.messages)
    [] s.kind = "external" -> s.max_turns
    [] OTHER -> 0

C11_DrainTerminates ==
  /\ [](Len(gen.yielded) <= DrainBound(source))
  /\ (gen.pc = "start") ~> (gen.pc = "done")

\* C11 witness: a drain of the hybrid source over the longest file came to
\* its end with the adapter having failed on every prompt
C11_WitnessAllFailed ==
  /\ source.kind = "hybrid" /\ gen.pc = "done"
  /\ Len(source.messages) = MaxLines
  /\ gen.calls = MaxLines
  /\ \A i \in DOMAIN gen.asked : ~gen.asked[i].response.success

\* C12: a FileConversationSource drained to its end has no messages left
\* (until it is reset);
\* reset() puts its index at 0; and a full drain, reset() and a second full
\* drain yield the same sequence, the loaded messages in file order.
C12_DrainResetDrain ==
  source.kind = "file" =>
    /\ (gen.pc = "done" /\ ~gen.reset) => ~File_has_messages(source)
    /\ gen.reset => source.current_index = 0
    /\ (gen.pc = "done" /\ gen.drains = 2 /\ gen.rewound)
         => (gen.yielded = gen.before /\ gen.yielded = source.messages)

\* C12 witness: the second drain after a reset came to its end over the
\* longest file, two different lines in it
C12_WitnessSecondDrain ==
  /\ source.kind = "file" /\ gen.pc = "done"
  /\ gen.drains = 2 /\ gen.rewound
  /\ Len(gen.yielded) = MaxLines /\ gen.yielded[1] # gen.yielded[2]
  /\ gen.before = gen.yielded

\* the drain began at the head of the file: it is the first one, or a
\* reset() came before it
FromHead == gen.drains = 1 \/ gen.rewound

\* the adapter answered every call of the drain with a non-empty reply
AllReplied ==
  \A i \in DOMAIN gen.asked :
    gen.asked[i].response.success /\ Truthy(gen.asked[i].response.message)

\* C13: a full drain of HybridConversationSource over a file of n loaded
\* lines yields, with get_responses and an adapter that replies non-empty to
\* every prompt, 2n texts: line i at 2i-1 and the adapter's reply to line i
\* at 2i; without get_responses it yields the n lines in order and calls
\* the adapter never.
C13_HybridInterleaves ==
  (source.kind = "hybrid" /\ gen.pc = "done" /\ FromHead) =>
    LET n == Len(source.messages)
    IN /\ (source.get_responses /\ AllReplied) =>
            /\ Len(gen.yielded) = 2 * n
            /\ gen.calls = n
            /\ \A i \in 1..n :
                 /\ gen.yielded[2 * i - 1] = source.messages[i]
                 /\ gen.asked[i].prompt = source.messages[i]
                 /\ gen.yielded[2 * i] = gen.asked[i].response.message
       /\ ~source.get_responses =>
            (gen.yielded = source.messages /\ gen.calls = 0)

\* C13 witness: a drain over the longest file of different lines came to its
\* end with a different reply after each line
C13_WitnessInterleaved ==
  /\ source.kind = "hybrid" /\ gen.pc = "done" /\ FromHead
  /\ source.get_responses /\ AllReplied
  /\ Len(source.messages) = MaxLines
  /\ source.messages[1] # source.messages[2]
  /\ Len(gen.yielded) = 2 * MaxLines
  /\ gen.yielded[2] # gen.yielded[4]

\* C14: has_messages() of ExternalServiceConversationSource is false
\* whenever the source will produce no further message: a drain that came to
\* its end, by max_turns or by the seeds running out with no follow-up to
\* generate, leaves has_messages() false (until the source is reset).
C14_DoneHasNoMessages ==
  (source.kind = "external" /\ gen.pc = "done" /\ ~gen.reset) => ~has_messages(source)

\* C15: ExternalServiceConversationSource asks the adapter for a reply only
\* in context mode: with context_mode false no drain calls send_message.
C15_AsksOnlyInContextMode ==
  (source.kind = "external" /\ ~source.context_mode) => gen.calls = 0

\* C16: reset() of ExternalServiceConversationSource sets the turn counter
\* to 0, and it clears the adapter's conversation history if and only if
\* context_mode is false: in context mode the history is left as it was.
C16_ResetClearsHistory ==
  [][ (source.kind = "external" /\ gen'.reset)
        => /\ source'.current_turn = 0
           /\ ~source.context_mode => source'.history = 0
           /\ source.context_mode => source'.history = source.history ]_vars

\* C16 witness: a source without context mode was reset after a drain in
\* which the adapter's history had grown, and the history is empty
C16_WitnessCleared ==
  /\ source.kind = "external" /\ ~source.context_mode
  /\ gen.reset /\ gen.calls > 0 /\ gen.had > 0
  /\ source.current_turn = 0 /\ source.history = 0

\* C17: in one drain of ExternalServiceConversationSource the k-th prompt is
\* the k-th seed prompt while the seed list lasts, and every prompt after
\* that is the follow-up at index (n div 2) mod len(followups), n being the
\* number of messages the drain has yielded before it.
C17_PromptOrder ==
  [][ ( /\ source.kind = "external"
        /\ gen'.pc = "after_prompt"
        /\ Len(gen'.yielded) = Len(gen.yielded) + 1 )
        => LET n == Len(gen.yielded)
               k == gen.prompts
               prompt == gen'.yielded[n + 1]
           IN IF k < Len(source.initial_prompts)
              THEN prompt = source.initial_prompts[k + 1]
              ELSE prompt = Followups[((n \div 2) % Len(Followups)) + 1] ]_vars

\* C17 witness: a drain went through a two-prompt seed list in order and
\* then yielded a follow-up
C17_WitnessFollowup ==
  /\ source.kind = "external"
  /\ source.initial_prompts = <<"p1", "p2">>
  /\ gen.pc = "after_prompt"
  /\ gen.prompts = 3
  /\ gen.yielded[1] = "p1"
  /\ \E i \in DOMAIN Followups : gen.yielded[Len(gen.yielded)] = Followups[i]

\* C18: decoding a response never fails on an event whose type is no member
\* of EventType or is missing: the decoded events are as many as the
\* response's and in its order, an event whose type is a member keeps it,
\* and every other event has the type Unknown.
C18_UnknownTypesDecoded ==
  parse.pc = "decoded" =>
    /\ Len(parse.result.messages) = Len(parse.data.messages)
    /\ \A i \in DOMAIN parse.data.messages :
         LET wire == parse.data.messages[i]
             event == parse.result.messages[i]
         IN /\ event.index = wire.index
            /\ event.type \in EventTypeValues
            /\ wire.type \in EventTypeValues => event.type = wire.type
            /\ wire.type \notin EventTypeValues => event.type = "Unknown"

\* C18 witness: a response of three events, the middle one of a type that
\* is no member and the last one without a type, was decoded
C18_WitnessMixed ==
  /\ parse.pc = "decoded"
  /\ Len(parse.data.messages) = 3
  /\ parse.data.messages[1].type = "Message"
  /\ parse.data.messages[2].type = "Bogus"
  /\ parse.data.messages[3].type = AbsentS
  /\ parse.result.messages[1].type = "Message"
  /\ parse.result.messages[2].type = "Unknown"
  /\ parse.result.messages[3].type = "Unknown"

\* C19: is_success of a decoded result is true if and only if its
\* status_code is 0 and its errors list is empty, the status_code being the
\* body's statusCode (0 when the key is missing) and the errors the body's.
C19_SuccessIffZeroAndNoErrors ==
  parse.pc = "decoded" =>
    /\ parse.result.status_code = DictGet(parse.data.statusCode, 0)
    /\ Len(parse.result.errors) = Len(parse.data.errors)
    /\ parse.ok <=> (parse.result.status_code = 0 /\ parse.result.errors = <<>>)

\* C19 witness: a body with statusCode 0 and an error in errors was decoded
\* to a result that is not a success
C19_WitnessZeroWithErrors ==
  /\ parse.pc = "decoded"
  /\ parse.data.statusCode = 0
  /\ parse.data.errors # <<>>
  /\ ~parse.ok

\* a step in which a running wait_for_message call, entered with an active
\* session, comes back to its caller
WaitEnds == wait.pc = "loop" /\ wait'.pc = "idle" /\ last'.had_session

\* the call returned one event of the type asked for, out of the answer to a
\* refresh request it sent
WaitReturnedMatch ==
  /\ last'.outcome = Return("event")
  /\ last'.sent /\ last'.req.op = "refresh"
  /\ Len(last'.result.messages) = 1
  /\ last'.result.messages[1].type = wait.event_type

\* the call raised GenesysChatTimeoutError with the clock at or past timeout
WaitTimedOut ==
  /\ last'.outcome = Raise("GenesysChatTimeoutError", "Timeout waiting for message")
  /\ ~(wait.elapsed < wait.timeout)

\* the call raised what a refresh request it sent had failed with
WaitRefreshFailed ==
  /\ last'.sent /\ last'.req.op = "refresh"
  /\ last'.outcome.kind = "raise"
  /\ last'.cause # "ok"

OperationSuffixes ==
  {"refresh", "send", "disconnect", "startTyping", "stopTyping", "file", "file/limits",
   "file/{id}/delete", "file/{id}/download", "updateNickname", "updateData", "pushUrl",
   "readReceipt", "customNotice"}

\* C21: every start_chat request is posted to the create endpoint
\* {base}{service}/ (no chat id, empty suffix), also on a client that has an
\* active session; every other request is posted to
\* {base}{service}/{chatId}/{op} with the chat id of the current session and
\* op one of the documented suffixes.
C21_Endpoints ==
  [][ (last'.sent /\ last' # last)
        => IF last'.op = "start_chat"
           THEN last'.req.chat = None /\ last'.req.op = Empty
           ELSE last'.req.chat = chat_id /\ last'.req.op \in OperationSuffixes ]_vars

\* C22: every start_chat request posts the identity fields and the initial
\* text, whatever operations the client performed before it.
C22_CreatePostsIdentity ==
  (last.op = "start_chat" /\ last.sent) => Data(last.req) = IdentityData

\* the fields of the first instance and the call it made last
FirstClient == <<session, request_count, config_data, last>>

InFlight == { t \in Callers : callers[t].pc = "in_flight" }

\* C24: on one client at most one request is in flight at any time: a
\* second caller's request is not issued before the first call has completed
\* and stored its cursor.
C24_OneInFlight == Cardinality(InFlight) <= 1

\* sequence a is the beginning of sequence b
IsPrefix(a, b) == Len(a) <= Len(b) /\ SubSeq(b, 1, Len(a)) = a

\* C25: the conversation history is append-only between clears: every
\* add_to_history and send_message (and end_session) leaves the entries it
\* found unchanged and in place and adds at the end only, so the length
\* never decreases; after clear_history the history is empty.
C25_HistoryAppendOnly ==
  [][ /\ service'.op \in {"add_to_history", "send_message", "end_session"}
           => IsPrefix(service.conversation_history, service'.conversation_history)
      /\ service'.op = "clear_history" => service'.conversation_history = <<>> ]_vars

\* C25 witness: a send_message answered with a reply put the user's text and
\* the reply behind the system prompt of start_session
C25_WitnessAppended ==
  /\ service.op = "send_message" /\ service.ret = "True"
  /\ Len(service.conversation_history) = 3
  /\ service.conversation_history[1] = ChatMessage("system", "prompt")
  /\ service.conversation_history[2].role = "user"
  /\ service.conversation_history[3].role = "assistant"

\* the number of payloads the run is to send
PayloadsPlanned ==
  IF test.payload_type = "all" THEN SumSizes(test.categories)
  ELSE test.categories[test.category]

\* C26 (as stated): with stop_on_block the payload test stops exactly when a
\* payload is Blocked: no payload is sent after a Blocked one, and a run
\* that was stopped was stopped by a Blocked payload, never by a send that
\* failed for another reason.
C26_StopsExactlyOnBlock ==
  (test.stop_on_block /\ Len(test.sent) > 0)
    => /\ \A i \in 1..(Len(test.sent) - 1) : test.sent[i].cause # "blocked"
       /\ test.sent[Len(test.sent)].cause = "blocked" => test.pc = "stopped"
       /\ (test.pc = "stopped" /\ Len(test.sent) < PayloadsPlanned)
            => test.sent[Len(test.sent)].cause = "blocked"

\* the half of C26 that the code gives: nothing is sent after a Blocked
\* payload
PayloadNoneAfterBlock ==
  (test.stop_on_block /\ Len(test.sent) > 0)
    => /\ \A i \in 1..(Len(test.sent) - 1) : test.sent[i].cause # "blocked"
       /\ test.sent[Len(test.sent)].cause = "blocked" => test.pc = "stopped"

\* a run with stop_on_block that a payload answered with an HTTP error
\* status stopped, payloads remaining
PayloadStoppedByStatus ==
  /\ test.stop_on_block /\ test.pc = "stopped"
  /\ test.sent[Len(test.sent)].cause = "status"
  /\ Len(test.sent) < PayloadsPlanned

\* the client holds no session: `not self._chat_id` (lib), `not self.session`
\* (bot)
NoSessionHeld == IF impl = "lib" THEN ~Truthy(chat_id) ELSE chat_id = None

\* C27: a step of any operation other than start_chat taken while no session
\* is held issues no request and leaves the session fields, the cursor, the
\* request counter and the stored request form unchanged.
C27_NoSessionNoEffect ==
  [][ (NoSessionHeld /\ ~start_chat /\ ~bot_start_chat)
        => /\ last' # last => ~last'.sent
           /\ session' = session
           /\ request_count' = request_count
           /\ config_data' = config_data ]_vars

\* C27 witness: refresh(MaxPos) called on a client whose session was
\* disconnected: refused, nothing sent, the cursor not replaced by MaxPos
C27_WitnessRefused ==
  /\ impl = "lib"
  /\ last.op = "refresh" /\ last.arg = MaxPos
  /\ ~last.had_session /\ ~last.sent
  /\ last.outcome.kind = "raise"
  /\ chat_id = None /\ transcript_position = 0

\* what the caller of a call sees as its failure: an exception, the end of
\* the process, or the bot's None / False
CallFailed(call) ==
  \/ call.outcome.kind \in {"raise", "exit"}
  \/ call.outcome.kind = "return" /\ call.outcome.ret \in {"None", "False"}

\* C28 (as stated): a call of any operation other than disconnect that fails
\* leaves chatId, secureKey, userId, alias and transcriptPosition exactly as
\* they were before the call.
C28_FailureKeepsSession ==
  [][ (last' # last /\ last'.op # "disconnect" /\ CallFailed(last'))
        => session' = session ]_vars

\* the same for every operation but refresh with a position override
C28_FailureKeepsSessionNoOverride ==
  [][ (last' # last /\ last'.op # "disconnect" /\ CallFailed(last')
         /\ ~(last'.op = "refresh" /\ last'.arg # NoPos))
        => session' = session ]_vars

\* a step that issued the request of an operation other than start_chat
\* (the step in which wait_for_message gives up issues none: `last` keeps
\* the request of its last poll)
SessionRequestStep ==
  /\ last' # last /\ last'.sent /\ last'.op # "start_chat"
  /\ ~(last'.op = "wait_for_message"
         /\ last'.outcome = Raise("GenesysChatTimeoutError", "Timeout waiting for message"))

\* the request carries the alias, secureKey and userId the client holds
CarriesCredentials ==
  /\ last'.req.alias = alias
  /\ last'.req.secureKey = secure_key
  /\ last'.req.userId = user_id

\* the operations called with a position of their own
PositionGiven ==
  \/ last'.op = "send_read_receipt"
  \/ last'.op = "refresh" /\ last'.arg # NoPos

C30_ReadReceiptKeepsCursor ==
  [][ /\ (last' # last /\ last'.op = "send_read_receipt")
           => /\ transcript_position' = transcript_position
              /\ last'.sent => last'.req.transcriptPosition = last'.arg
      /\ (last' # last /\ last'.op = "refresh" /\ last'.arg # NoPos /\ last'.sent)
           => /\ last'.req.transcriptPosition = last'.arg
              /\ transcript_position' =
                   IF last'.outcome.kind = "return"
                      /\ last'.result.next_position # NoPos
                   THEN last'.result.next_position
                   ELSE last'.arg ]_vars

\* C30 witness: send_read_receipt(MaxPos) was answered, nextPosition and
\* all, and the tracked cursor is still 0
C30_WitnessReceiptSent ==
  /\ last.op = "send_read_receipt" /\ last.arg = MaxPos /\ last.sent
  /\ last.req.transcriptPosition = MaxPos
  /\ last.outcome.kind = "return"
  /\ last.result.next_position = 1
  /\ transcript_position = 0

\* the history holds at most one system entry, at its head, and every
\* assistant entry directly follows a user entry
HistoryShape ==
  \A i \in DOMAIN service.conversation_history :
    LET entry == service.conversation_history[i]
    IN /\ entry.role = "system" => i = 1
       /\ entry.role = "assistant"
            => i > 1 /\ service.conversation_history[i - 1].role = "user"

\* what one send_message did to the history and what it returned
SendAppendsAsStated ==
  LET before == service.conversation_history
      after == service'.conversation_history
      response == service'.response
  IN IF service.api_key
     THEN /\ IsPrefix(before, after)
          /\ Len(after) > Len(before)
          /\ after[Len(before) + 1].role = "user"
          /\ IF response.success
             THEN /\ Len(after) = Len(before) + 2
                  /\ after[Len(after)] = ChatMessage("assistant", response.message)
             ELSE /\ Len(after) = Len(before) + 1
                  /\ response.error # None /\ response.message = None
     ELSE /\ after = before
          /\ ~response.success

\* C35 (as stated): send_message with an api key appends the user message on
\* every call and an assistant entry only on a call that succeeds; a failed
\* call returns success = false with an error and no reply text; without an
\* api key it returns success = false and leaves the history unchanged; so
\* the history is a system entry, if any, and then user entries each
\* followed by at most one assistant entry.
C35_AssistantOnlyOnSuccess ==
  /\ [][ (service' # service /\ service'.op = "send_message")
           => SendAppendsAsStated ]_vars
  /\ []HistoryShape

\* the shape of the history alone, which the code keeps
C35_ShapeOnly == []HistoryShape

\* C37: decoding what was encoded gives the object back: for every
\* ChatOperationResult r, from_dict(r.to_dict()) = r, messages and errors in
\* their order, and for every Event e in it, with or without a
\* from-participant, Event.from_dict(e.to_dict()) = e.
C37_RoundTrip ==
  parse.pc = "decoded" =>
    /\ parse.result = parse.object
    /\ \A i \in DOMAIN parse.object.messages :
         /\ Event_from_dict(Event_to_dict(parse.object.messages[i]))
              = parse.object.messages[i]
         /\ parse.result.messages[i] = parse.object.messages[i]
    /\ \A i \in DOMAIN parse.object.errors :
         parse.result.errors[i] = parse.object.errors[i]

\* C37 witness: a result with two events, the first from a participant
\* whose fields are all None and the second from nobody, and two different
\* errors, came back from the round trip
C37_WitnessRoundTrip ==
  /\ parse.pc = "decoded"
  /\ Len(parse.object.messages) = 2
  /\ parse.object.messages[1].from_participant
       = <<[nickname |-> None, participant_id |-> NoPos, type |-> None]>>
  /\ parse.object.messages[2].from_participant = <<>>
  /\ parse.data.messages[1].from # <<>>
  /\ parse.data.messages[2].from = <<>>
  /\ Len(parse.object.errors) = 2
  /\ parse.object.errors[1] # parse.object.errors[2]
  /\ parse.result = parse.object

\* has_messages() of the source at hand
SourceHasMessages ==
  IF source.kind = "external" THEN has_messages(source) ELSE File_has_messages(source)

\* a next() on the generator of a drain that has begun
PullStep == gen.pc \in {"start", "after_prompt", "after_reply"} /\ gen' # gen

\* C33 (as stated): for each source variant, when has_messages() is false
\* between two pulls of a drain, the next pull yields no message.
C33_NoMessagesNoYield ==
  [][ (PullStep /\ ~SourceHasMessages) => gen'.yielded = gen.yielded ]_vars

\* the same for the File and ExternalService variants alone
C33_NoMessagesNoYieldButHybrid ==
  [][ (PullStep /\ ~SourceHasMessages /\ source.kind # "hybrid")
        => gen'.yielded = gen.yielded ]_vars


\* one turn of the loop of a running wait_for_message call
WaitTurn == wait.pc = "loop" /\ wait' # wait

\* the positions, in response order, of the events of the type asked for
PositionsOfType(messages, event_type) ==
  { i \in 1..Len(messages) : messages[i].type = event_type }

\* the turn returned the event at the least of these positions and left the loop
WaitReturnedFirst ==
  LET at == PositionsOfType(last'.seen, wait.event_type)
      first == CHOOSE i \in at : \A j \in at : i <= j
  IN /\ last'.outcome = Return("event")
     /\ last'.result.messages = <<last'.seen[first]>>
     /\ wait'.pc = "idle"

\* the turn found the clock at or past timeout: GenesysChatTimeoutError, and
\* no request in this turn
WaitGaveUp ==
  /\ last'.outcome = Raise("GenesysChatTimeoutError", "Timeout waiting for message")
  /\ wait'.pc = "idle"
  /\ last'.req = last.req /\ last'.seen = last.seen

\* the turn's refresh came back without an event of the type: the loop goes
\* on, later on the clock
WaitSleeps ==
  /\ wait'.pc = "loop" /\ wait'.elapsed > wait.elapsed
  /\ last'.outcome = Pending

\* C34 (safety): every turn of wait_for_message's loop that finds the clock
\* below timeout performs one refresh; if that refresh succeeds and its
\* response holds events of the requested type, the call returns the first of
\* them in response order and leaves the loop, so no refresh follows; if it
\* holds none the loop goes on.  A turn that finds the clock at or past
\* timeout raises GenesysChatTimeoutError without a request, so a call with
\* timeout <= 0 performs no refresh at all.
C34_TurnsAsStated ==
  [][ WaitTurn =>
        IF ~(wait.elapsed < wait.timeout)
        THEN WaitGaveUp /\ (wait.timeout <= 0 => ~last'.sent)
        ELSE IF ~last'.had_session \/ last'.outcome.kind = "raise"
        THEN wait'.pc = "idle"
        ELSE /\ last'.sent /\ last'.req.op = "refresh"
             /\ IF PositionsOfType(last'.seen, wait.event_type) # {}
                THEN WaitReturnedFirst
                ELSE WaitSleeps ]_vars

ExitStep == last'.op = "__exit__" /\ last' # last

\* __exit__ called disconnect: its request went out, or its refusal was caught
DisconnectAttempted ==
  \/ last'.sent /\ last'.req.op = "disconnect"
  \/ last'.log = "Error disconnecting"

\* C36: leaving the client's context manager attempts a disconnect exactly
\* when a session is active (the chat id is not None) at that moment; whatever
\* that disconnect fails with, __exit__ returns None; with no session active
\* no request is made and the client is left as it was.
C36_ExitDisconnectsIfActive ==
  [][ ExitStep =>
        /\ last'.outcome = Return("None")
        /\ (chat_id # None) <=> DisconnectAttempted
        /\ (chat_id = None) => (~last'.sent /\ UNCHANGED session) ]_vars

\* C36 witness: __exit__ ran with a session active, its disconnect request
\* failed, and it returned with the session still held
C36_WitnessFailureSwallowed ==
  /\ last.op = "__exit__" /\ last.had_session
  /\ last.sent /\ last.req.op = "disconnect"
  /\ last.cause # "ok" /\ last.log = "Error disconnecting"
  /\ last.outcome = Return("None")
  /\ chat_id # None


\* main called disconnect on the client
DisconnectCalled == \E i \in DOMAIN driver.trace : driver.trace[i] = "disconnect"

\* C31 (as stated): once start_chat has succeeded, main attempts a disconnect
\* before the process ends, on every path: the mode completing, a mode
\* argument error, a user interrupt, a transport failure in any request
\* after the session was started, the initial refresh included.
C31_DisconnectBeforeEnd ==
  driver.pc = "ended" => (DisconnectCalled /\ last.op = "disconnect" /\ last.sent)

\* what holds: the disconnect is attempted on every path that has entered
\* the try block
C31_DisconnectOnceInTry ==
  (driver.pc = "ended" /\ \E i \in DOMAIN driver.trace : driver.trace[i] = "try")
    => (DisconnectCalled /\ last.op = "disconnect" /\ last.sent)

\* the process ended on a transport failure of the initial refresh
MainEndedInInitialRefresh ==
  /\ driver.pc = "ended" /\ driver.raised = "SystemExit"
  /\ driver.trace = <<"refresh">>
  /\ is_active


\* the texts of the send_message calls of the loop, in call order
RunSentTexts ==
  LET is_send(e) == e.op = "send"
      sends == SelectSeq(driver.trace, is_send)
  IN [i \in DOMAIN sends |-> sends[i].text]

\* the calls of the loop come in pairs: send_message for the i-th text pulled,
\* then refresh, the last pair being cut short only where the loop is
RunPaired ==
  /\ \A i \in DOMAIN driver.trace :
        /\ driver.trace[i].op = (IF i % 2 = 1 THEN "send" ELSE "refresh")
        /\ driver.trace[i].text = gen.yielded[(i + 1) \div 2]
  /\ driver.pc \in {"pull", "done"} => Len(driver.trace) = 2 * Len(gen.yielded)
  /\ driver.pc = "send" => Len(driver.trace) = 2 * Len(gen.yielded) - 2
  /\ driver.pc = "refresh" => Len(driver.trace) = 2 * Len(gen.yielded) - 1

\* the loop ends only with the source, or with the process
RunEndsWithSource ==
  /\ driver.pc = "done" => gen.pc = "done"
  /\ driver.pc = "exited" =>
        (~alive /\ driver.trace[Len(driver.trace)].ret = "exit")

====
